---- MODULE Spec2Model ----
(***************************************************************************)
(* Model of the ESP32 Wiener Linien departure display:                     *)
(*   main.py            initialize() and the poll loop start_main_loop()   *)
(*   lib/display.py     the display module (refresh counter, cache,        *)
(*                      animation phase, bottom status row)                *)
(*   lib/get_data.py    get_data() / validate_response()                   *)
(*   lib/init_wifi.py   get_timezone_offset() / is_dst()                   *)
(*   lib/wifi_manager.py, lib/crowpanel.py  link state and LED             *)
(*                                                                         *)
(* Two specifications are given.  Spec is the program: initialize() and    *)
(* then the poll loop, one action per step of a tick.  DisplaySpec calls   *)
(* the public functions of lib/display.py in every order.                  *)
(***************************************************************************)
EXTENDS Integers, Sequences, FiniteSets, TLC

(***************************************************************************)
(* Bounds of the model.                                                    *)
(***************************************************************************)
MaxInterval == 3
MaxThreshold == 1
MaxAnimInterval == 1
MaxFullInterval == 2
MaxStep == 2
Horizon == 2
MaxRedraws == 5
MaxDisplayFullInterval == 3
DisplayHorizon == 2
MaxWatchdog == 3
MaxReconnectDelay == 2
MaxConnectTimeout == 2
MaxLines == 3
MaxDepartures == 5
MaxTowardsLen == 3
MaxStops == 2
MaxMonitors == 2

(***************************************************************************)
(* Values that stand for Python's None and for "no time recorded".         *)
(***************************************************************************)
None == [py |-> "NoneType"]
NoTime == 0 - 1

(***************************************************************************)
(* lib/init_wifi.py: local time.  utime.time() counts seconds from         *)
(* 2000-01-01 00:00:00, a Saturday; the calendar below covers the year     *)
(* 2000, which holds every time the model reaches.                         *)
(***************************************************************************)
TIMEZONE_OFFSET_HOURS == 1

\* Number of days before the first day of each month of the year 2000.
DaysBeforeMonth == <<0, 31, 60, 91, 121, 152, 182, 213, 244, 274, 305, 335, 366>>

\* utime.localtime(t): the fields the program reads.
localtime(t) ==
  LET dayIdx == t \div 86400
      m == CHOOSE k \in 1..12 : DaysBeforeMonth[k] <= dayIdx /\ dayIdx < DaysBeforeMonth[k + 1]
  IN [month   |-> m,
      day     |-> dayIdx - DaysBeforeMonth[m] + 1,
      hour    |-> (t \div 3600) % 24,
      minute  |-> (t \div 60) % 60,
      weekday |-> (5 + dayIdx) % 7]

is_dst(t) ==
  LET lt == localtime(t)
      last_day == 31
      last_day_weekday == (5 + DaysBeforeMonth[lt.month] + last_day - 1) % 7
      last_sunday == last_day - ((last_day_weekday + 1) % 7)
  IN IF lt.month < 3 \/ lt.month > 10 THEN FALSE
     ELSE IF lt.month > 3 /\ lt.month < 10 THEN TRUE
     ELSE IF lt.month = 3 THEN lt.day >= last_sunday
     ELSE lt.day < last_sunday

get_timezone_offset(t) ==
  (TIMEZONE_OFFSET_HOURS + (IF is_dst(t) THEN 1 ELSE 0)) * 3600

\* lib/utils.py: a number as two decimal digits.
two_digits(n) == IF n < 10 THEN <<0, n>> ELSE <<n \div 10, n % 10>>

\* The text 'HH:MM' drawn at the bottom left.
ClockText(t) ==
  LET lt == localtime(t + get_timezone_offset(t))
  IN <<two_digits(lt.hour), two_digits(lt.minute)>>

(***************************************************************************)
(* Departure data.  A Python dict is a record that carries the keys it     *)
(* has; the field py holds the Python type that isinstance() tests.  A     *)
(* list is a record with py = "list" and the sequence of its items.        *)
(***************************************************************************)
PyList(items) == [py |-> "list", items |-> items]

Line(name, direction, countdowns) ==
  [py |-> "dict", name |-> name, direction |-> direction,
   departures |-> [i \in DOMAIN countdowns |-> [py |-> "dict", countdown |-> countdowns[i]]]]

Stop(lines) == [py |-> "dict", lines |-> lines]

\* No departure is arriving.
DataPlain == PyList(<<Stop(<<Line("49", "R", <<3, 9>>)>>)>>)
\* A visible departure of line 49 is arriving now.
DataArriving == PyList(<<Stop(<<Line("49", "R", <<0, 7>>)>>)>>)
\* Only a U4 departure is arriving now; two stops, two lines with one name.
DataU4 ==
  PyList(<<Stop(<<Line("U4", "H", <<0, 8>>)>>),
           Stop(<<Line("49", "H", <<2>>), Line("49", "R", <<4>>)>>)>>)

Datasets == {DataPlain, DataArriving, DataU4}

(***************************************************************************)
(* lib/config.py: line_priority of config.json, and the order of Python    *)
(* string comparison on the line names the model uses.                     *)
(***************************************************************************)
get_line_priority == <<"49", "N49", "U4">>

NamesInOrder == <<"10A", "13A", "49", "N49", "U4">>

NameRank(n) == CHOOSE i \in DOMAIN NamesInOrder : NamesInOrder[i] = n

IndexOf(seq, x) == CHOOSE i \in DOMAIN seq : seq[i] = x /\ \A j \in 1..(i - 1) : seq[j] # x

InSeq(seq, x) == \E i \in DOMAIN seq : seq[i] = x

(***************************************************************************)
(* lib/display.py, _shorten_destination.  A Python string is the sequence  *)
(* of its characters.  The program runs on MicroPython, whose str.upper()  *)
(* converts ASCII letters only; an interpreter with Unicode case mapping   *)
(* also converts the umlauts and turns the sharp s into SS.  The variable  *)
(* unicode_case tells which of the two the interpreter does.               *)
(***************************************************************************)
VARIABLE unicode_case

LowerAscii ==
  <<"a", "b", "c", "d", "e", "f", "g", "h", "i", "j", "k", "l", "m", "n",
    "o", "p", "q", "r", "s", "t", "u", "v", "w", "x", "y", "z">>

UpperAscii ==
  <<"A", "B", "C", "D", "E", "F", "G", "H", "I", "J", "K", "L", "M", "N",
    "O", "P", "Q", "R", "S", "T", "U", "V", "W", "X", "Y", "Z">>

\* str.upper() on one character.
UpperChar(c) ==
  IF \E i \in DOMAIN LowerAscii : LowerAscii[i] = c
    THEN <<UpperAscii[CHOOSE i \in DOMAIN LowerAscii : LowerAscii[i] = c]>>
  ELSE IF ~unicode_case THEN <<c>>
  ELSE CASE c = "ä" -> <<"Ä">>
         [] c = "ö" -> <<"Ö">>
         [] c = "ü" -> <<"Ü">>
         [] c = "ß" -> <<"S", "S">>
         [] OTHER -> <<c>>

\* str.upper()
RECURSIVE upper(_)
upper(s) == IF s = << >> THEN << >> ELSE UpperChar(s[1]) \o upper(Tail(s))

\* towards.split(',')[0]
split_first(s) ==
  IF \E i \in DOMAIN s : s[i] = ","
    THEN SubSeq(s, 1, (CHOOSE i \in DOMAIN s : s[i] = "," /\ \A j \in 1..(i - 1) : s[j] # ",") - 1)
    ELSE s

\* str.strip(): blanks removed at both ends.
strip(s) ==
  LET kept == {i \in DOMAIN s : s[i] # " "}
  IN IF kept = {} THEN << >>
     ELSE SubSeq(s, CHOOSE i \in kept : \A j \in kept : i <= j,
                    CHOOSE i \in kept : \A j \in kept : j <= i)

\* The table of known long names (lines 156-164).
shortnames ==
  <<
    [key   |-> <<"H", "E", "I", "L", "I", "G", "E", "N", "S", "T", "A", "D",
                "T">>,
     value |-> <<"H", "e", "i", "l", "i", "g", "e", "n", "s", "t", ".">>],
    [key   |-> <<"A", "N", "S", "C", "H", "Ü", "T", "Z", "G", "A", "S", "S",
                "E">>,
     value |-> <<"A", "n", "s", "c", "h", "u", "e", "t", "z", "g", ".">>],
    [key   |-> <<"U", "N", "T", "E", "R", " ", "S", "T", ".", " ", "V", "E",
                "I", "T", " ", "U">>,
     value |-> <<"U", "n", "t", "e", "r", " ", "S", "t", ".", " ", "V", ".">>],
    [key   |-> <<"W", "E", "S", "T", "B", "A", "H", "N", "H", "O", "F", " ",
                "S", " ", "U">>,
     value |-> <<"W", "e", "s", "t", "b", "a", "h", "n", "h", "o", "f">>],
    [key   |-> <<"H", "Ü", "T", "T", "E", "L", "D", "O", "R", "F">>,
     value |-> <<"H", "ü", "t", "t", "e", "l", "d", "o", "r", "f">>],
    [key   |-> <<"K", "L", "I", "N", "I", "K", " ", "P", "E", "N", "Z", "I",
                "N", "G">>,
     value |-> <<"K", "l", ".", " ", "P", "e", "n", "z", "i", "n", "g">>],
    [key   |-> <<"U", "R", "B", "A", "N", " ", "L", "O", "R", "I", "T", "Z",
                " ", "P", "L", "A", "T", "Z">>,
     value |-> <<"U", ".", " ", "L", "o", "r", "i", "t", "z", " ", "P", "l",
                ".">>]
  >>

\* The chain of replace() calls of lines 171-172, character by character.
ReplaceChar(c) ==
  CASE c = "ä" -> <<"a", "e">>
    [] c = "ö" -> <<"o", "e">>
    [] c = "ü" -> <<"u", "e">>
    [] c = "Ä" -> <<"A", "e">>
    [] c = "Ö" -> <<"O", "e">>
    [] c = "Ü" -> <<"U", "e">>
    [] c = "ß" -> <<"s", "s">>
    [] OTHER -> <<c>>

RECURSIVE replace_umlauts(_)
replace_umlauts(s) ==
  IF s = << >> THEN << >> ELSE ReplaceChar(s[1]) \o replace_umlauts(Tail(s))

shorten_destination(towards) ==
  IF towards = << >> THEN << >>
  ELSE LET first == strip(split_first(towards))
           up == upper(first)
           short == IF \E i \in DOMAIN shortnames : shortnames[i].key = up
                      THEN shortnames[CHOOSE i \in DOMAIN shortnames :
                                        shortnames[i].key = up].value
                      ELSE first
       IN replace_umlauts(short)

\* line.get('towards', '')
Towards(line) == IF "towards" \in DOMAIN line THEN line.towards ELSE << >>

(***************************************************************************)
(* lib/display.py, write_to_display: the layout.                           *)
(***************************************************************************)
GROUP_FIRST_ROW_HEIGHT == 34
GROUP_SUB_ROW_HEIGHT == 28
MaxTimesPerRow == 4
U4MinCountdown == 6
PrioritySentinel == 999

\* lines = [line for stop in data for line in stop['lines']]
RECURSIVE FlattenLines(_)
FlattenLines(stops) ==
  IF stops = << >> THEN << >>
  ELSE stops[1].lines \o FlattenLines(Tail(stops))

\* The sort key of a line: a 4-tuple compared lexicographically.
LineKey(line) ==
  <<IF InSeq(get_line_priority, line.name) THEN 0 ELSE 1,
    IF InSeq(get_line_priority, line.name)
      THEN IndexOf(get_line_priority, line.name) - 1 ELSE PrioritySentinel,
    IF line.direction # "R" THEN 1 ELSE 0,
    NameRank(line.name)>>

RECURSIVE KeyLess(_, _)
KeyLess(a, b) ==
  IF a = << >> THEN FALSE
  ELSE IF a[1] # b[1] THEN a[1] < b[1]
  ELSE KeyLess(Tail(a), Tail(b))

\* Variant of InsertSorted: x goes in front of the elements of equal key.
RECURSIVE InsertSorted_BeforeEqual(_, _)
InsertSorted_BeforeEqual(s, x) ==
  IF s = << >> THEN <<x>>
  ELSE IF ~KeyLess(LineKey(s[1]), LineKey(x)) THEN <<x>> \o s
  ELSE <<s[1]>> \o InsertSorted_BeforeEqual(Tail(s), x)

\* Insert x behind every element whose key is not greater (stable).
RECURSIVE InsertSorted(_, _)
InsertSorted(s, x) ==
  IF s = << >> THEN <<x>>
  ELSE IF KeyLess(LineKey(x), LineKey(s[1])) THEN <<x>> \o s
  ELSE <<s[1]>> \o InsertSorted(Tail(s), x)

\* Python's sorted(lines, key=...): a stable sort by LineKey.
RECURSIVE sorted(_)
sorted(s) ==
  IF s = << >> THEN << >>
  ELSE InsertSorted(sorted(SubSeq(s, 1, Len(s) - 1)), s[Len(s)])

SelectLines(s, name) == SelectSeq(s, LAMBDA l : l.name = name)

\* Variant of GroupOrder: a group is a run of neighbouring lines of one name.
RECURSIVE GroupOrder_Runs(_)
GroupOrder_Runs(s) ==
  IF s = << >> THEN << >>
  ELSE IF Len(s) > 1 /\ s[2].name = s[1].name THEN GroupOrder_Runs(Tail(s))
  ELSE <<s[1].name>> \o GroupOrder_Runs(Tail(s))

\* group_order: the names in order of first appearance.
RECURSIVE GroupOrder(_)
GroupOrder(s) ==
  IF s = << >> THEN << >>
  ELSE <<s[1].name>> \o GroupOrder(SelectSeq(Tail(s), LAMBDA l : l.name # s[1].name))

\* Variant of VisibleCountdowns: the first four, then the U4 filter.
VisibleCountdowns_TruncateFirst(line_name, line) ==
  LET all == [i \in DOMAIN line.departures |-> line.departures[i].countdown]
      four == SubSeq(all, 1, IF Len(all) < MaxTimesPerRow THEN Len(all) ELSE MaxTimesPerRow)
  IN IF line_name = "U4"
       THEN SelectSeq(four, LAMBDA c : c >= U4MinCountdown) ELSE four

\* The countdowns drawn in a row: the U4 filter, then the first four.
VisibleCountdowns(line_name, line) ==
  LET all == [i \in DOMAIN line.departures |-> line.departures[i].countdown]
      kept == IF line_name = "U4"
                THEN SelectSeq(all, LAMBDA c : c >= U4MinCountdown) ELSE all
  IN SubSeq(kept, 1, IF Len(kept) < MaxTimesPerRow THEN Len(kept) ELSE MaxTimesPerRow)

\* What is drawn in a time slot: the animated square, or the number.
TimeSlot(countdown, phase) ==
  IF countdown = 0
    THEN (IF phase THEN "square_top_right" ELSE "square_bottom_left")
    ELSE ToString(countdown)

\* The rows of one group: separator, line glyph, row height, time slots.
GroupRows(group_idx, line_name, group_lines, phase) ==
  [row_idx \in DOMAIN group_lines |->
     LET line == group_lines[row_idx]
         shown == VisibleCountdowns(line_name, line)
     IN [separator |-> (group_idx > 1 /\ row_idx = 1),
         name      |-> IF row_idx = 1 THEN line_name ELSE "",
         height    |-> IF row_idx = 1 THEN GROUP_FIRST_ROW_HEIGHT ELSE GROUP_SUB_ROW_HEIGHT,
         towards   |-> shorten_destination(Towards(line)),
         times     |-> [i \in DOMAIN shown |-> TimeSlot(shown[i], phase)]]]

RECURSIVE RowsFrom(_, _, _, _)
RowsFrom(group_idx, order, lines, phase) ==
  IF group_idx > Len(order) THEN << >>
  ELSE GroupRows(group_idx, order[group_idx], SelectLines(lines, order[group_idx]), phase)
         \o RowsFrom(group_idx + 1, order, lines, phase)

\* The departure area that write_to_display draws for a dataset.
RenderRows(data, phase) ==
  LET lines == sorted(FlattenLines(data.items))
  IN RowsFrom(1, GroupOrder(lines), lines, phase)

(***************************************************************************)
(* lib/display.py: the module state and the frame buffer.                  *)
(*                                                                         *)
(* The variable display holds the globals of the module under their own    *)
(* names, the frame buffer of the panel (frame), the flushes the last      *)
(* call performed (flushes) and, for the run of data redraws since         *)
(* init_display or the last error screen, the number of redraws and of     *)
(* their full and partial flushes (run_redraws, run_full, run_partial).    *)
(***************************************************************************)
BlankArea == [kind |-> "blank", msg |-> "", rows |-> << >>]
BlankStatus == [clock |-> << >>, stale |-> << >>, wifi |-> ""]
BlankFrame == [area |-> BlankArea, status |-> BlankStatus]

\* The module globals as the import leaves them (display.py lines 40-53, 445, 448).
DisplayGlobals ==
  [_refresh_count            |-> 0,
   _arriving_indicator_state |-> FALSE,
   _cached_departures        |-> None,
   _wifi_connected           |-> FALSE,
   _wifi_stale_data          |-> FALSE,
   _last_displayed_minute    |-> -1,
   _last_update_time         |-> 0,
   frame                     |-> BlankFrame,
   flushes                   |-> << >>,
   run_redraws               |-> 0,
   run_full                  |-> 0,
   run_partial               |-> 0]

\* A call starts with no flush performed yet.
Enter(D) == [D EXCEPT !.flushes = << >>]

\* A new run of data redraws starts.
NewRun(D) == [D EXCEPT !.run_redraws = 0, !.run_full = 0, !.run_partial = 0]

\* epd.show(): full refresh.
show(D) == [D EXCEPT !.flushes = Append(@, "full")]

\* epd.show_partial(): partial refresh.
show_partial(D) == [D EXCEPT !.flushes = Append(@, "partial")]

\* epd.fill(COLOR_WHITE)
fill_white(D) == [D EXCEPT !.frame = BlankFrame]

init_display(D0) ==
  LET D == Enter(D0)
  IN NewRun([show(fill_white(D)) EXCEPT !._refresh_count = 0])

write_start_msg_to_display(D0, msg) ==
  LET D == Enter(D0)
      drawn == [fill_white(D) EXCEPT !.frame.area = [kind |-> "boot", msg |-> msg, rows |-> << >>]]
  IN show_partial(drawn)

\* Variant of write_error_to_display: the refresh counter is not reset.
write_error_to_display_KeepsCount(D0, msg) ==
  LET D == Enter(D0)
      drawn == [fill_white(D) EXCEPT !.frame.area = [kind |-> "error", msg |-> msg, rows |-> << >>]]
  IN NewRun(show(drawn))

write_error_to_display(D0, msg) ==
  LET D == Enter(D0)
      drawn == [fill_white(D) EXCEPT !.frame.area = [kind |-> "error", msg |-> msg, rows |-> << >>]]
  IN NewRun([show(drawn) EXCEPT !._refresh_count = 0])

\* The stale marker 'STALE Xs' in the centre of the bottom row.
draw_stale_indicator(D, t) ==
  LET seconds_ago == IF D._last_update_time > 0 THEN t - D._last_update_time ELSE 0
  IN [D EXCEPT !.frame.status.stale =
        IF D._wifi_stale_data THEN <<"STALE", seconds_ago>> ELSE << >>]

\* The connectivity glyph at the bottom right, from the cached state.
draw_wifi_status_internal(D) ==
  [D EXCEPT !.frame.status.wifi = IF D._wifi_connected THEN "bars" ELSE "X"]

\* Variant of the refresh policy: the comparison is > instead of >=.
RefreshAfterRedraw_Late(D, full_refresh_interval) ==
  LET count == D._refresh_count + 1
  IN IF count > full_refresh_interval
       THEN [show(D) EXCEPT !._refresh_count = 0,
                            !.run_redraws = @ + 1, !.run_full = @ + 1]
       ELSE [show_partial(D) EXCEPT !._refresh_count = count,
                                    !.run_redraws = @ + 1, !.run_partial = @ + 1]

\* Variant of the refresh policy: the counter is not reset by a full flush.
RefreshAfterRedraw_NoReset(D, full_refresh_interval) ==
  LET count == D._refresh_count + 1
  IN IF count >= full_refresh_interval
       THEN [show(D) EXCEPT !._refresh_count = count,
                            !.run_redraws = @ + 1, !.run_full = @ + 1]
       ELSE [show_partial(D) EXCEPT !._refresh_count = count,
                                    !.run_redraws = @ + 1, !.run_partial = @ + 1]

\* The refresh policy at the end of write_to_display.
RefreshAfterRedraw(D, full_refresh_interval) ==
  LET count == D._refresh_count + 1
  IN IF count >= full_refresh_interval
       THEN [show(D) EXCEPT !._refresh_count = 0,
                            !.run_redraws = @ + 1, !.run_full = @ + 1]
       ELSE [show_partial(D) EXCEPT !._refresh_count = count,
                                    !.run_redraws = @ + 1, !.run_partial = @ + 1]

write_to_display(D0, data, t, full_refresh_interval) ==
  LET D  == Enter(D0)
      D1 == [fill_white(D) EXCEPT !._cached_departures = data]
      D2 == [D1 EXCEPT !.frame.area =
               [kind |-> "data", msg |-> "",
                rows |-> RenderRows(data, D._arriving_indicator_state)],
               !._last_update_time = t]
      D3 == [D2 EXCEPT !.frame.status.clock = ClockText(t)]
      D4 == draw_wifi_status_internal(draw_stale_indicator(D3, t))
  IN RefreshAfterRedraw(D4, full_refresh_interval)

clear_cached_departures(D0) ==
  LET D == Enter(D0)
  IN [D EXCEPT !._cached_departures = None]

draw_wifi_status(D0, connected, stale_data) ==
  LET D == Enter(D0)
      D1 == [D EXCEPT !._wifi_connected = connected, !._wifi_stale_data = stale_data]
  IN show_partial(draw_wifi_status_internal(D1))

\* Any countdown 0 among the first four departures of any line.
has_arriving_departures(data) ==
  IF data = None THEN FALSE
  ELSE \E s \in DOMAIN data.items :
         \E l \in DOMAIN data.items[s].lines :
           LET deps == data.items[s].lines[l].departures
           IN \E i \in DOMAIN deps : i <= MaxTimesPerRow /\ deps[i].countdown = 0

update_arriving_animation(D0, t, full_refresh_interval) ==
  LET D == Enter(D0)
  IN IF ~has_arriving_departures(D._cached_departures) THEN D
     ELSE LET toggled == [D EXCEPT !._arriving_indicator_state = ~@]
          IN IF toggled._cached_departures # None
               THEN write_to_display(toggled, toggled._cached_departures, t, full_refresh_interval)
               ELSE toggled

\* Variant of update_current_time: the row is flushed by a full refresh.
update_current_time_FullFlush(D0, t) ==
  LET D == Enter(D0)
      current_minute == localtime(t + get_timezone_offset(t)).minute
  IN IF current_minute = D._last_displayed_minute THEN D
     ELSE LET D1 == [D EXCEPT !.frame.status = BlankStatus]
              D2 == [D1 EXCEPT !.frame.status.clock = ClockText(t)]
              D3 == draw_wifi_status_internal(draw_stale_indicator(D2, t))
          IN show([D3 EXCEPT !._last_displayed_minute = current_minute])

\* Variant of update_current_time_result: the minute drawn is not stored.
update_current_time_result_NoStore(D0, t) ==
  LET D == Enter(D0)
      current_minute == localtime(t + get_timezone_offset(t)).minute
  IN IF current_minute = D._last_displayed_minute
       THEN [display |-> D, returned |-> FALSE]
       ELSE LET D1 == [D EXCEPT !.frame.status = BlankStatus]
                D2 == [D1 EXCEPT !.frame.status.clock = ClockText(t)]
                D3 == draw_wifi_status_internal(draw_stale_indicator(D2, t))
            IN [display |-> show_partial(D3), returned |-> TRUE]

\* update_current_time(): the module state it leaves and the value it returns.
update_current_time_result(D0, t) ==
  LET D == Enter(D0)
      current_minute == localtime(t + get_timezone_offset(t)).minute
  IN IF current_minute = D._last_displayed_minute
       THEN [display |-> D, returned |-> FALSE]
       ELSE LET D1 == [D EXCEPT !.frame.status = BlankStatus]
                D2 == [D1 EXCEPT !.frame.status.clock = ClockText(t)]
                D3 == draw_wifi_status_internal(draw_stale_indicator(D2, t))
            IN [display |-> show_partial([D3 EXCEPT !._last_displayed_minute = current_minute]),
                returned |-> TRUE]

update_current_time(D0, t) == update_current_time_result(D0, t).display

(***************************************************************************)
(* lib/get_data.py: what make_request hands to get_data, the shape         *)
(* validation, and get_data itself.                                        *)
(***************************************************************************)
Response(data) == [py |-> "dict", data |-> data, localeTimestamp |-> "2025-12-16 10:25:00"]

RespNotDict == [py |-> "list"]
RespNoData == [py |-> "dict", localeTimestamp |-> ""]
RespDataNotList == Response([py |-> "dict"])
RespNoTimestamp == [py |-> "dict", data |-> DataPlain]
RespStopNotDict == Response(PyList(<<[py |-> "str"]>>))
RespStopNoLines == Response(PyList(<<[py |-> "dict"]>>))
RespLineNoName ==
  Response(PyList(<<Stop(<<[py |-> "dict", direction |-> "R", departures |-> << >>]>>)>>))
RespLineNoDepartures ==
  Response(PyList(<<Stop(<<[py |-> "dict", name |-> "49", direction |-> "R"]>>)>>))
\* Passes the validation, but a departure is not a dict: the print loop raises.
RespBadDeparture ==
  Response(PyList(<<Stop(<<[py |-> "dict", name |-> "49", direction |-> "R",
                            departures |-> <<[py |-> "int"]>>]>>)>>))

GoodResponses == {Response(d) : d \in Datasets}

MalformedResponses ==
  {RespNotDict, RespNoData, RespDataNotList, RespNoTimestamp, RespStopNotDict,
   RespStopNoLines, RespLineNoName, RespLineNoDepartures}

\* What a call of make_request can do: raise, or return None or a response.
MakeRequestOutcomes ==
  {[raised |-> TRUE, value |-> None]}
    \cup {[raised |-> FALSE, value |-> v] :
            v \in {None} \cup GoodResponses \cup MalformedResponses \cup {RespBadDeparture}}

ValidLine(line) ==
  line.py = "dict" /\ "name" \in DOMAIN line /\ "departures" \in DOMAIN line

ValidStop(stop) ==
  IF stop.py # "dict" \/ "lines" \notin DOMAIN stop THEN FALSE
  ELSE \A l \in DOMAIN stop.lines : ValidLine(stop.lines[l])

\* Variant of validate_response: the timestamp is not required.
validate_response_NoTimestamp(data) ==
  IF data.py # "dict" THEN FALSE
  ELSE IF "data" \notin DOMAIN data THEN FALSE
  ELSE IF data.data.py # "list" THEN FALSE
  ELSE \A s \in DOMAIN data.data.items : ValidStop(data.data.items[s])

validate_response(data) ==
  IF data.py # "dict" THEN FALSE
  ELSE IF "data" \notin DOMAIN data THEN FALSE
  ELSE IF data.data.py # "list" THEN FALSE
  ELSE IF "localeTimestamp" \notin DOMAIN data THEN FALSE
  ELSE \A s \in DOMAIN data.data.items : ValidStop(data.data.items[s])

\* The logging loop of get_data calls departure.get on every departure.
PrintLoopRaises(data) ==
  \E s \in DOMAIN data.data.items :
    \E l \in DOMAIN data.data.items[s].lines :
      \E i \in DOMAIN data.data.items[s].lines[l].departures :
        data.data.items[s].lines[l].departures[i].py # "dict"

\* get_data() for an outcome of make_request: it raises or returns a value.
get_data(outcome) ==
  IF outcome.raised THEN [raised |-> TRUE, value |-> None]
  ELSE IF outcome.value = None THEN [raised |-> FALSE, value |-> None]
  ELSE IF ~validate_response(outcome.value) THEN [raised |-> FALSE, value |-> None]
  ELSE IF PrintLoopRaises(outcome.value) THEN [raised |-> TRUE, value |-> None]
  ELSE [raised |-> FALSE, value |-> outcome.value]

\* Why a fetch gave the loop no data.
FailureKind(outcome) ==
  IF get_data(outcome).raised THEN "exception"
  ELSE IF outcome.value = None THEN "no_data"
  ELSE "invalid_data"

(***************************************************************************)
(* main.py: the state of the program.                                      *)
(***************************************************************************)
VARIABLES
  pc,                      \* position of the program
  now,                     \* utime.time(), the device clock
  boot_time,               \* the clock when the loop is entered
  DATA_REFRESH_INTERVAL,   \* config: update_interval_sec
  ANIMATION_INTERVAL,      \* config: animation_interval_sec
  STALE_RESTART_THRESHOLD, \* config: stale_restart_threshold_sec
  full_refresh_interval,   \* config: full_refresh_interval_cycles
  current_time,            \* the tick's sample of the clock
  last_data_fetch,
  last_animation_toggle,
  has_displayed_data,
  using_stale_data,
  data,                    \* the result of the tick's get_data()
  led,                     \* the power LED of the panel
  link_up,                 \* wlan.isconnected()
  display,                 \* lib/display.py
  fetch_result,            \* history: outcome of the tick's fetch step
  reconnect_result,        \* history: outcome of the tick's Wi-Fi step
  last_success,            \* history: tick time of the last successful fetch
  fail_since,              \* history: tick time of the first failure since then
  restarts,                \* history: calls of machine.reset()
  action,                  \* the tick's result of check_buttons()
  wdt,                     \* the hardware watchdog
  attempt,                 \* history: the last fetch attempt
  blocking                 \* the blocking call in progress

config == <<DATA_REFRESH_INTERVAL, ANIMATION_INTERVAL, STALE_RESTART_THRESHOLD,
            full_refresh_interval, boot_time, unicode_case>>

locals == <<current_time, last_data_fetch, last_animation_toggle,
            has_displayed_data, using_stale_data, data>>

history == <<fetch_result, reconnect_result, last_success, fail_since, restarts>>

vars == <<pc, now, config, locals, led, link_up, display, history, action, wdt, attempt, blocking>>

(***************************************************************************)
(* The watchdog: its timeout in seconds, the seconds since it was last     *)
(* fed (counted up to one more than the largest timeout), and the number   *)
(* of feeds in the current tick of the poll loop.                          *)
(***************************************************************************)
WatchdogOff == [timeout |-> MaxWatchdog, unfed |-> 0, tick_feeds |-> 0]

\* wdt.feed()
feed(w) == [w EXCEPT !.unfed = 0, !.tick_feeds = @ + 1]

\* d seconds pass without a feed.
Elapse(w, d) ==
  [w EXCEPT !.unfed = IF @ + d > MaxWatchdog + 1 THEN MaxWatchdog + 1 ELSE @ + d]

\* No blocking call is modelled in progress.
NotBlocking == [call |-> "none"]

\* The last fetch attempt: its tick time, and whether the HOME button was
\* read as pressed since.
NoAttempt == [time |-> NoTime, refreshed |-> FALSE]

\* main.py, check_buttons(): Python's None is the string "None" here.
check_buttons(home_pressed, exit_pressed) ==
  IF home_pressed THEN "refresh"
  ELSE IF exit_pressed THEN "toggle_display"
  ELSE "None"

\* The clock when the loop starts: not synchronised (shortly after power-on,
\* the epoch) or synchronised (shortly before a minute ends).
UnsyncedStart == 2
SyncedStart == 118

Init ==
  /\ pc = "init"
  /\ boot_time \in {UnsyncedStart, SyncedStart}
  /\ unicode_case = FALSE
  /\ now = boot_time
  /\ DATA_REFRESH_INTERVAL \in 1..MaxInterval
  /\ ANIMATION_INTERVAL \in 1..MaxAnimInterval
  /\ STALE_RESTART_THRESHOLD \in 0..MaxThreshold
  /\ full_refresh_interval \in 1..MaxFullInterval
  /\ current_time = 0
  /\ last_data_fetch = 0
  /\ last_animation_toggle = 0
  /\ has_displayed_data = FALSE
  /\ using_stale_data = FALSE
  /\ data = None
  /\ led = FALSE
  /\ link_up = FALSE
  /\ display = DisplayGlobals
  /\ fetch_result = "idle"
  /\ reconnect_result = "idle"
  /\ last_success = NoTime
  /\ fail_since = NoTime
  /\ restarts = 0
  /\ action = "None"
  /\ wdt = WatchdogOff
  /\ attempt = NoAttempt
  /\ blocking = NotBlocking

(***************************************************************************)
(* initialize(): the display is initialised and the start message shown;   *)
(* then the Wi-Fi connection succeeds or fails.                            *)
(***************************************************************************)
InitializeOk ==
  /\ pc = "init"
  /\ display' =
       write_start_msg_to_display(
         write_start_msg_to_display(
           write_start_msg_to_display(init_display(display), "Connecting to Wi-Fi..."),
           "Syncing time..."),
         "Fetching data...")
  /\ link_up' = TRUE
  /\ pc' = "tick"
  /\ UNCHANGED <<now, config, locals, led, history>>
  /\ wdt' = [wdt EXCEPT !.unfed = 0]
  /\ UNCHANGED <<action, attempt, blocking>>

\* Variant of InitializeFail: main() starts the loop whatever initialize()
\* returns.
InitializeFail_StartsLoop ==
  /\ pc = "init"
  /\ display' =
       write_error_to_display(
         write_start_msg_to_display(init_display(display), "Connecting to Wi-Fi..."),
         "Wi-Fi connection failed")
  /\ link_up' = FALSE
  /\ pc' = "tick"
  /\ UNCHANGED <<now, config, locals, led, history>>
  /\ wdt' = [wdt EXCEPT !.unfed = 0]
  /\ UNCHANGED <<action, attempt, blocking>>

\* Lines 55-59: the connection fails; the error screen, return False.
InitializeFail ==
  /\ pc = "init"
  /\ display' =
       write_error_to_display(
         write_start_msg_to_display(init_display(display), "Connecting to Wi-Fi..."),
         "Wi-Fi connection failed")
  /\ link_up' = FALSE
  /\ pc' = "halt"
  /\ UNCHANGED <<now, config, locals, led, history>>
  /\ wdt' = [wdt EXCEPT !.unfed = 0]
  /\ UNCHANGED <<action, attempt, blocking>>

(***************************************************************************)
(* start_main_loop(): one tick, step by step.                              *)
(***************************************************************************)
\* Variant of TickStart: the watchdog is not fed at the top of the loop.
TickStart_NoFeed ==
  /\ pc = "tick"
  /\ current_time' = now
  /\ wdt' = [wdt EXCEPT !.tick_feeds = 0]
  /\ \E home_pressed \in BOOLEAN, exit_pressed \in BOOLEAN :
       /\ action' = check_buttons(home_pressed, exit_pressed)
       /\ last_data_fetch' = IF action' = "refresh" THEN 0 ELSE last_data_fetch
       /\ attempt' = [attempt EXCEPT !.refreshed = @ \/ action' = "refresh"]
  /\ fetch_result' = "idle"
  /\ reconnect_result' = "idle"
  /\ pc' = "wifi"
  /\ UNCHANGED <<now, config, last_animation_toggle, has_displayed_data,
                 using_stale_data, data, led, link_up, display,
                 last_success, fail_since, restarts>>
  /\ UNCHANGED blocking

\* Lines 103-111: feed the watchdog, sample the clock, read the buttons.
TickStart ==
  /\ pc = "tick"
  /\ current_time' = now
  /\ wdt' = feed([wdt EXCEPT !.tick_feeds = 0])
  /\ \E home_pressed \in BOOLEAN, exit_pressed \in BOOLEAN :
       /\ action' = check_buttons(home_pressed, exit_pressed)
       /\ last_data_fetch' = IF action' = "refresh" THEN 0 ELSE last_data_fetch
       /\ attempt' = [attempt EXCEPT !.refreshed = @ \/ action' = "refresh"]
  /\ fetch_result' = "idle"
  /\ reconnect_result' = "idle"
  /\ pc' = "wifi"
  /\ UNCHANGED <<now, config, last_animation_toggle, has_displayed_data,
                 using_stale_data, data, led, link_up, display,
                 last_success, fail_since, restarts>>
  /\ UNCHANGED blocking

\* Line 114: the link is up.
WifiConnected ==
  /\ pc = "wifi"
  /\ link_up
  /\ reconnect_result' = "connected"
  /\ pc' = "fetch"
  /\ UNCHANGED <<now, config, locals, led, link_up, display,
                 fetch_result, last_success, fail_since, restarts>>
  /\ UNCHANGED <<action, wdt, attempt, blocking>>

\* Lines 114-117, 121-122: the link is down and reconnect() returns True.
ReconnectOk ==
  /\ pc = "wifi"
  /\ ~link_up
  /\ link_up' = TRUE
  /\ reconnect_result' = "ok"
  /\ pc' = "fetch"
  /\ UNCHANGED <<now, config, locals, led, display,
                 fetch_result, last_success, fail_since, restarts>>
  /\ UNCHANGED <<action, wdt, attempt, blocking>>

\* Variant of ReconnectFail: the LED is not switched on.
ReconnectFail_NoLed ==
  /\ pc = "wifi"
  /\ ~link_up
  /\ using_stale_data' = TRUE
  /\ reconnect_result' = "failed"
  /\ pc' = "fetch"
  /\ UNCHANGED <<now, config, current_time, last_data_fetch, last_animation_toggle,
                 has_displayed_data, data, led, link_up, display,
                 fetch_result, last_success, fail_since, restarts>>
  /\ UNCHANGED <<action, wdt, attempt, blocking>>

\* Variant of ReconnectFail: the tick ends when the reconnection fails.
ReconnectFail_EndsTick ==
  /\ pc = "wifi"
  /\ ~link_up
  /\ using_stale_data' = TRUE
  /\ led' = TRUE
  /\ reconnect_result' = "failed"
  /\ pc' = "fail_sleep"
  /\ UNCHANGED <<now, config, current_time, last_data_fetch, last_animation_toggle,
                 has_displayed_data, data, link_up, display,
                 fetch_result, last_success, fail_since, restarts>>
  /\ UNCHANGED <<action, wdt, attempt, blocking>>

\* Lines 114-120: the link is down and reconnect() returns False.
ReconnectFail ==
  /\ pc = "wifi"
  /\ ~link_up
  /\ using_stale_data' = TRUE
  /\ led' = TRUE
  /\ reconnect_result' = "failed"
  /\ pc' = "fetch"
  /\ UNCHANGED <<now, config, current_time, last_data_fetch, last_animation_toggle,
                 has_displayed_data, data, link_up, display,
                 fetch_result, last_success, fail_since, restarts>>
  /\ UNCHANGED <<action, wdt, attempt, blocking>>

\* Line 125: is a fetch due in this tick?
FetchDue == current_time - last_data_fetch >= DATA_REFRESH_INTERVAL

FetchNotDue ==
  /\ pc = "fetch"
  /\ ~FetchDue
  /\ fetch_result' = "not_due"
  /\ pc' = "stale_check"
  /\ UNCHANGED <<now, config, locals, led, link_up, display,
                 reconnect_result, last_success, fail_since, restarts>>
  /\ action' = "None"
  /\ UNCHANGED <<wdt, attempt, blocking>>

\* Variant of FetchFailed: the loop turns stale only when the failures have
\* lasted one fetch interval.
FetchFailed_Patient(outcome) ==
  LET since == IF fail_since = NoTime THEN current_time ELSE fail_since
      stale == using_stale_data \/ current_time - since >= DATA_REFRESH_INTERVAL
  IN /\ display' =
          (LET cleared == clear_cached_departures(display)
           IN IF ~has_displayed_data
                THEN write_error_to_display(cleared, "Error fetching data")
                ELSE cleared)
     /\ using_stale_data' = stale
     /\ led' = stale
     /\ last_data_fetch' = current_time
     /\ data' = None
     /\ fetch_result' = FailureKind(outcome)
     /\ fail_since' = since
     /\ pc' = "fail_sleep"
     /\ UNCHANGED <<now, config, current_time, last_animation_toggle,
                    has_displayed_data, link_up, reconnect_result, last_success, restarts>>
     /\ action' = "None"
     /\ wdt' = IF get_data(outcome).raised THEN feed(wdt) ELSE feed(feed(wdt))
     /\ attempt' = [time |-> current_time, refreshed |-> FALSE]
     /\ UNCHANGED blocking

\* Variant of FetchFailed: the error screen is drawn on every failed fetch.
FetchFailed_AlwaysError(outcome) ==
  /\ display' =
       write_error_to_display(clear_cached_departures(display), "Error fetching data")
  /\ using_stale_data' = TRUE
  /\ led' = TRUE
  /\ last_data_fetch' = current_time
  /\ data' = None
  /\ fetch_result' = FailureKind(outcome)
  /\ fail_since' = IF fail_since = NoTime THEN current_time ELSE fail_since
  /\ pc' = "fail_sleep"
  /\ UNCHANGED <<now, config, current_time, last_animation_toggle,
                 has_displayed_data, link_up, reconnect_result, last_success, restarts>>
  /\ action' = "None"
  /\ wdt' = IF get_data(outcome).raised THEN feed(wdt) ELSE feed(feed(wdt))
  /\ attempt' = [time |-> current_time, refreshed |-> FALSE]
  /\ UNCHANGED blocking

\* Variant of FetchFailed: an exception of get_data ends the program.
FetchFailed_Propagates(outcome) ==
  /\ display' =
       (LET cleared == clear_cached_departures(display)
        IN IF ~has_displayed_data /\ ~get_data(outcome).raised
             THEN write_error_to_display(cleared, "Error fetching data")
             ELSE cleared)
  /\ using_stale_data' = (using_stale_data \/ ~get_data(outcome).raised)
  /\ led' = (led \/ ~get_data(outcome).raised)
  /\ last_data_fetch' = IF get_data(outcome).raised THEN last_data_fetch ELSE current_time
  /\ data' = None
  /\ fetch_result' = FailureKind(outcome)
  /\ fail_since' = IF fail_since = NoTime THEN current_time ELSE fail_since
  /\ pc' = IF get_data(outcome).raised THEN "halt" ELSE "fail_sleep"
  /\ UNCHANGED <<now, config, current_time, last_animation_toggle,
                 has_displayed_data, link_up, reconnect_result, last_success, restarts>>
  /\ action' = "None"
  /\ wdt' = IF get_data(outcome).raised THEN feed(wdt) ELSE feed(feed(wdt))
  /\ attempt' = [time |-> current_time, refreshed |-> FALSE]
  /\ UNCHANGED blocking

\* Variant of FetchFailed: the fetch timer is left as it was.
FetchFailed_KeepsTimer(outcome) ==
  /\ display' =
       (LET cleared == clear_cached_departures(display)
        IN IF ~has_displayed_data
             THEN write_error_to_display(cleared, "Error fetching data")
             ELSE cleared)
  /\ using_stale_data' = TRUE
  /\ led' = TRUE
  /\ data' = None
  /\ fetch_result' = FailureKind(outcome)
  /\ fail_since' = IF fail_since = NoTime THEN current_time ELSE fail_since
  /\ pc' = "fail_sleep"
  /\ UNCHANGED <<now, config, current_time, last_data_fetch, last_animation_toggle,
                 has_displayed_data, link_up, reconnect_result, last_success, restarts>>
  /\ action' = "None"
  /\ wdt' = IF get_data(outcome).raised THEN feed(wdt) ELSE feed(feed(wdt))
  /\ attempt' = [time |-> current_time, refreshed |-> FALSE]
  /\ UNCHANGED blocking

\* Variant of FetchFailed: the cached dataset survives the failed fetch.
FetchFailed_KeepsCache(outcome) ==
  /\ display' =
       (IF ~has_displayed_data
          THEN write_error_to_display(Enter(display), "Error fetching data")
          ELSE Enter(display))
  /\ using_stale_data' = TRUE
  /\ led' = TRUE
  /\ last_data_fetch' = current_time
  /\ data' = None
  /\ fetch_result' = FailureKind(outcome)
  /\ fail_since' = IF fail_since = NoTime THEN current_time ELSE fail_since
  /\ pc' = "fail_sleep"
  /\ UNCHANGED <<now, config, current_time, last_animation_toggle,
                 has_displayed_data, link_up, reconnect_result, last_success, restarts>>
  /\ action' = "None"
  /\ wdt' = IF get_data(outcome).raised THEN feed(wdt) ELSE feed(feed(wdt))
  /\ attempt' = [time |-> current_time, refreshed |-> FALSE]
  /\ UNCHANGED blocking

\* Lines 139-149: the loop got no data.
FetchFailed(outcome) ==
  /\ display' =
       (LET cleared == clear_cached_departures(display)
        IN IF ~has_displayed_data
             THEN write_error_to_display(cleared, "Error fetching data")
             ELSE cleared)
  /\ using_stale_data' = TRUE
  /\ led' = TRUE
  /\ last_data_fetch' = current_time
  /\ data' = None
  /\ fetch_result' = FailureKind(outcome)
  /\ fail_since' = IF fail_since = NoTime THEN current_time ELSE fail_since
  /\ pc' = "fail_sleep"
  /\ UNCHANGED <<now, config, current_time, last_animation_toggle,
                 has_displayed_data, link_up, reconnect_result, last_success, restarts>>
  /\ action' = "None"
  /\ wdt' = IF get_data(outcome).raised THEN feed(wdt) ELSE feed(feed(wdt))
  /\ attempt' = [time |-> current_time, refreshed |-> FALSE]
  /\ UNCHANGED blocking

\* Lines 129-135, 151: the loop got data.
FetchReturned(outcome) ==
  /\ display' = clear_cached_departures(display)
  /\ data' = get_data(outcome).value
  /\ fetch_result' = "ok"
  /\ pc' = "render"
  /\ UNCHANGED <<now, config, current_time, last_data_fetch, last_animation_toggle,
                 has_displayed_data, using_stale_data, led, link_up,
                 reconnect_result, last_success, fail_since, restarts>>
  /\ action' = "None"
  /\ wdt' = IF get_data(outcome).raised THEN feed(wdt) ELSE feed(feed(wdt))
  /\ attempt' = [time |-> current_time, refreshed |-> FALSE]
  /\ UNCHANGED blocking

\* Lines 125-149: the fetch step of a tick in which a fetch is due.
Fetch ==
  /\ pc = "fetch"
  /\ FetchDue
  /\ \E outcome \in MakeRequestOutcomes :
       LET result == get_data(outcome)
       IN IF result.raised \/ result.value = None
            THEN FetchFailed(outcome)
            ELSE FetchReturned(outcome)

\* Line 152: write_to_display(data['data'])
Render ==
  /\ pc = "render"
  /\ display' = write_to_display(display, data.data, now, full_refresh_interval)
  /\ pc' = "wifi_status"
  /\ UNCHANGED <<now, config, locals, led, link_up, history>>
  /\ UNCHANGED <<action, wdt, attempt, blocking>>

\* Line 153: draw_wifi_status(wlan.is_connected(), using_stale_data)
WifiStatus ==
  /\ pc = "wifi_status"
  /\ display' = draw_wifi_status(display, link_up, using_stale_data)
  /\ pc' = "mark_fresh"
  /\ UNCHANGED <<now, config, locals, led, link_up, history>>
  /\ wdt' = feed(wdt)
  /\ UNCHANGED <<action, attempt, blocking>>

\* Variant of MarkFresh: the stale flag and the LED are left as they are.
MarkFresh_KeepsStale ==
  /\ pc = "mark_fresh"
  /\ has_displayed_data' = TRUE
  /\ last_data_fetch' = current_time
  /\ last_animation_toggle' = current_time
  /\ last_success' = current_time
  /\ fail_since' = NoTime
  /\ pc' = "stale_check"
  /\ UNCHANGED <<now, config, current_time, using_stale_data, data, led, link_up,
                 display, fetch_result, reconnect_result, restarts>>
  /\ UNCHANGED <<action, wdt, attempt, blocking>>

\* Lines 156-160: the bookkeeping of a successful fetch.
MarkFresh ==
  /\ pc = "mark_fresh"
  /\ has_displayed_data' = TRUE
  /\ using_stale_data' = FALSE
  /\ led' = FALSE
  /\ last_data_fetch' = current_time
  /\ last_animation_toggle' = current_time
  /\ last_success' = current_time
  /\ fail_since' = NoTime
  /\ pc' = "stale_check"
  /\ UNCHANGED <<now, config, current_time, data, link_up, display,
                 fetch_result, reconnect_result, restarts>>
  /\ UNCHANGED <<action, wdt, attempt, blocking>>

\* Variant of StaleTooLong: the stale flag is not consulted.
StaleTooLong_IgnoresFlag ==
  (current_time - last_data_fetch) > STALE_RESTART_THRESHOLD

\* Line 163: stale for too long.
StaleTooLong ==
  using_stale_data /\ (current_time - last_data_fetch) > STALE_RESTART_THRESHOLD

\* Lines 163-165: machine.reset()
Restart ==
  /\ pc = "stale_check"
  /\ StaleTooLong
  /\ restarts' = restarts + 1
  /\ pc' = "reset"
  /\ UNCHANGED <<now, config, locals, led, link_up, display,
                 fetch_result, reconnect_result, last_success, fail_since>>
  /\ UNCHANGED <<action, wdt, attempt, blocking>>

NoRestart ==
  /\ pc = "stale_check"
  /\ ~StaleTooLong
  /\ pc' = "display"
  /\ UNCHANGED <<now, config, locals, led, link_up, display, history>>
  /\ UNCHANGED <<action, wdt, attempt, blocking>>

\* Line 168: is the animation due in this tick?
AnimationDue ==
  has_displayed_data /\ current_time - last_animation_toggle >= ANIMATION_INTERVAL

\* Lines 168-170: update_arriving_animation()
Animate ==
  /\ pc = "display"
  /\ AnimationDue
  /\ display' = update_arriving_animation(display, now, full_refresh_interval)
  /\ last_animation_toggle' = current_time
  /\ pc' = "sleep"
  /\ UNCHANGED <<now, config, current_time, last_data_fetch, has_displayed_data,
                 using_stale_data, data, led, link_up, history>>
  /\ UNCHANGED <<action, wdt, attempt, blocking>>

\* Lines 171-173: update_current_time()
ClockUpdate ==
  /\ pc = "display"
  /\ ~AnimationDue
  /\ display' = update_current_time(display, now)
  /\ pc' = "sleep"
  /\ UNCHANGED <<now, config, locals, led, link_up, history>>
  /\ UNCHANGED <<action, wdt, attempt, blocking>>

\* Lines 148-149 and 178: utime.sleep(1), then the next tick.  The step d
\* is the second slept plus the time the tick itself took; meanwhile the
\* link may drop or come back.
Sleep ==
  /\ pc \in {"sleep", "fail_sleep"}
  /\ \E d \in 1..MaxStep :
       /\ now + d <= boot_time + Horizon
       /\ now' = now + d
       /\ wdt' = Elapse(wdt, d)
  /\ \E up \in BOOLEAN : link_up' = up
  /\ pc' = "tick"
  /\ UNCHANGED <<config, locals, led, display, history>>
  /\ UNCHANGED <<action, attempt, blocking>>

Next ==
  \/ InitializeOk
  \/ InitializeFail
  \/ TickStart
  \/ WifiConnected
  \/ ReconnectOk
  \/ ReconnectFail
  \/ FetchNotDue
  \/ Fetch
  \/ Render
  \/ WifiStatus
  \/ MarkFresh
  \/ Restart
  \/ NoRestart
  \/ Animate
  \/ ClockUpdate
  \/ Sleep

Spec == Init /\ [][Next]_vars

(***************************************************************************)
(* DisplaySpec: lib/display.py on its own.  After init_display the public  *)
(* functions of the module are called in any order, with any dataset and   *)
(* any status, while the clock advances.                                   *)
(***************************************************************************)
DisplayInit ==
  /\ pc = "api"
  /\ boot_time = SyncedStart
  /\ unicode_case = FALSE
  /\ now = boot_time
  /\ DATA_REFRESH_INTERVAL = 1
  /\ ANIMATION_INTERVAL = 1
  /\ STALE_RESTART_THRESHOLD = 0
  /\ full_refresh_interval \in 1..MaxDisplayFullInterval
  /\ current_time = 0
  /\ last_data_fetch = 0
  /\ last_animation_toggle = 0
  /\ has_displayed_data = FALSE
  /\ using_stale_data = FALSE
  /\ data = None
  /\ led = FALSE
  /\ link_up = FALSE
  /\ display = init_display(DisplayGlobals)
  /\ fetch_result = "idle"
  /\ reconnect_result = "idle"
  /\ last_success = NoTime
  /\ fail_since = NoTime
  /\ restarts = 0
  /\ action = "None"
  /\ wdt = WatchdogOff
  /\ attempt = NoAttempt
  /\ blocking = NotBlocking

CallWriteToDisplay ==
  /\ pc = "api"
  /\ display.run_redraws < MaxRedraws
  /\ \E d \in Datasets :
       display' = write_to_display(display, d, now, full_refresh_interval)
  /\ UNCHANGED <<pc, now, config, locals, led, link_up, history, action, wdt, attempt, blocking>>

CallWriteError ==
  /\ pc = "api"
  /\ display' = write_error_to_display(display, "Error fetching data")
  /\ UNCHANGED <<pc, now, config, locals, led, link_up, history, action, wdt, attempt, blocking>>

CallWriteStartMsg ==
  /\ pc = "api"
  /\ display' = write_start_msg_to_display(display, "Fetching data...")
  /\ UNCHANGED <<pc, now, config, locals, led, link_up, history, action, wdt, attempt, blocking>>

CallUpdateCurrentTime ==
  /\ pc = "api"
  /\ display' = update_current_time(display, now)
  /\ UNCHANGED <<pc, now, config, locals, led, link_up, history, action, wdt, attempt, blocking>>

CallDrawWifiStatus ==
  /\ pc = "api"
  /\ \E connected \in BOOLEAN, stale_data \in BOOLEAN :
       display' = draw_wifi_status(display, connected, stale_data)
  /\ UNCHANGED <<pc, now, config, locals, led, link_up, history, action, wdt, attempt, blocking>>

CallUpdateArrivingAnimation ==
  /\ pc = "api"
  /\ display.run_redraws < MaxRedraws
  /\ display' = update_arriving_animation(display, now, full_refresh_interval)
  /\ UNCHANGED <<pc, now, config, locals, led, link_up, history, action, wdt, attempt, blocking>>

CallClearCachedDepartures ==
  /\ pc = "api"
  /\ display' = clear_cached_departures(display)
  /\ UNCHANGED <<pc, now, config, locals, led, link_up, history, action, wdt, attempt, blocking>>

ClockAdvances ==
  /\ pc = "api"
  /\ now + 1 <= boot_time + DisplayHorizon
  /\ now' = now + 1
  /\ UNCHANGED <<pc, config, locals, led, link_up, display, history, action, wdt, attempt, blocking>>

DisplayNext ==
  \/ CallWriteToDisplay
  \/ CallWriteError
  \/ CallWriteStartMsg
  \/ CallUpdateCurrentTime
  \/ CallDrawWifiStatus
  \/ CallUpdateArrivingAnimation
  \/ CallClearCachedDepartures
  \/ ClockAdvances

DisplaySpec == DisplayInit /\ [][DisplayNext]_vars

(***************************************************************************)
(* BlockingSpec: the blocking calls of a tick, second by second.  A tick   *)
(* feeds the watchdog, reconnects when the link is down                    *)
(* (WLANManager.reconnect and connect), fetches (requests.get with its     *)
(* timeout), flushes the display (SSD1683._wait polls the BUSY pin) and    *)
(* sleeps.  The link and the BUSY pin belong to the environment.  The      *)
(* variable blocking holds the configuration of the Wi-Fi manager, the     *)
(* seconds connect() has waited, the BUSY pin, the reconnections of the    *)
(* tick and what the last call of connect() returned ("None" while there   *)
(* is none).                                                               *)
(***************************************************************************)
HTTP_TIMEOUT == 5

\* What the blocking calls leave alone.
loop_state == <<now, config, locals, led, display, history, action, attempt>>

BlockingInit ==
  /\ pc = "loop"
  /\ boot_time = SyncedStart
  /\ unicode_case = FALSE
  /\ now = boot_time
  /\ DATA_REFRESH_INTERVAL = 1
  /\ ANIMATION_INTERVAL = 1
  /\ STALE_RESTART_THRESHOLD = 0
  /\ full_refresh_interval = 1
  /\ current_time = 0
  /\ last_data_fetch = 0
  /\ last_animation_toggle = 0
  /\ has_displayed_data = FALSE
  /\ using_stale_data = FALSE
  /\ data = None
  /\ led = FALSE
  /\ link_up \in BOOLEAN
  /\ display = init_display(DisplayGlobals)
  /\ fetch_result = "idle"
  /\ reconnect_result = "idle"
  /\ last_success = NoTime
  /\ fail_since = NoTime
  /\ restarts = 0
  /\ action = "None"
  /\ attempt = NoAttempt
  /\ \E t \in 1..MaxWatchdog : wdt = [WatchdogOff EXCEPT !.timeout = t]
  /\ \E delay \in 0..MaxReconnectDelay, timeout \in 0..MaxConnectTimeout :
       blocking = [call |-> "none", reconnect_delay_sec |-> delay, timeout |-> timeout,
                   elapsed |-> 0, busy |-> FALSE, attempts |-> 0, returned |-> "None"]

\* main.py lines 103 and 114: the tick starts with a feed; is the link up?
LoopTop ==
  /\ pc = "loop"
  /\ wdt' = feed([wdt EXCEPT !.tick_feeds = 0])
  /\ blocking' = [blocking EXCEPT !.call = "none", !.attempts = 0, !.returned = "None"]
  /\ pc' = IF link_up THEN "fetch" ELSE "reconnect"
  /\ UNCHANGED <<loop_state, link_up>>

\* wifi_manager.py lines 93-95: reconnect() disconnects and sleeps for the
\* configured delay.
ReconnectSleep ==
  /\ pc = "reconnect"
  /\ blocking' = [blocking EXCEPT !.call = "reconnect", !.attempts = @ + 1]
  /\ wdt' = Elapse(wdt, blocking.reconnect_delay_sec)
  /\ link_up' = FALSE
  /\ pc' = "connect"
  /\ UNCHANGED loop_state

\* wifi_manager.py lines 40-42: connect() resets the interface and sleeps
\* one second.
ConnectReset ==
  /\ pc = "connect"
  /\ wdt' = Elapse(wdt, 1)
  /\ \E up \in BOOLEAN : link_up' = up
  /\ pc' = "connect_check"
  /\ UNCHANGED <<loop_state, blocking>>

\* wifi_manager.py lines 45-47: already connected.
ConnectAlready ==
  /\ pc = "connect_check"
  /\ link_up
  /\ blocking' = [blocking EXCEPT !.call = "none", !.returned = "True"]
  /\ pc' = "fetch"
  /\ UNCHANGED <<loop_state, link_up, wdt>>

\* wifi_manager.py lines 50-53: start the connection, note the start time.
ConnectInitiate ==
  /\ pc = "connect_check"
  /\ ~link_up
  /\ blocking' = [blocking EXCEPT !.elapsed = 0]
  /\ pc' = "connect_wait"
  /\ UNCHANGED <<loop_state, link_up, wdt>>

\* wifi_manager.py lines 54, 64-65: the link is up, connect() returns True.
ConnectWaitDone ==
  /\ pc = "connect_wait"
  /\ link_up
  /\ blocking' = [blocking EXCEPT !.call = "none", !.returned = "True"]
  /\ pc' = "fetch"
  /\ UNCHANGED <<loop_state, link_up, wdt>>

\* Variant of ConnectWaitTimeout: the comparison is >= instead of >.
ConnectWaitTimeout_Early ==
  /\ pc = "connect_wait"
  /\ ~link_up
  /\ blocking.elapsed >= blocking.timeout
  /\ blocking' = [blocking EXCEPT !.call = "none", !.returned = "False"]
  /\ pc' = "fetch"
  /\ UNCHANGED <<loop_state, link_up, wdt>>

\* wifi_manager.py lines 55-57: the timeout has passed, connect() returns
\* False.
ConnectWaitTimeout ==
  /\ pc = "connect_wait"
  /\ ~link_up
  /\ blocking.elapsed > blocking.timeout
  /\ blocking' = [blocking EXCEPT !.call = "none", !.returned = "False"]
  /\ pc' = "fetch"
  /\ UNCHANGED <<loop_state, link_up, wdt>>

\* wifi_manager.py lines 58-62: the iterations of the wait within one
\* second, each of which feeds the watchdog.
ConnectWaitSpin ==
  /\ pc = "connect_wait"
  /\ ~link_up
  /\ blocking.elapsed <= blocking.timeout
  /\ wdt' = [feed(wdt) EXCEPT !.tick_feeds = wdt.tick_feeds]
  /\ blocking' = [blocking EXCEPT !.elapsed = @ + 1]
  /\ \E up \in BOOLEAN : link_up' = up
  /\ UNCHANGED <<pc, loop_state>>

\* main.py line 126: the fetch begins with a feed.
FetchBegin ==
  /\ pc = "fetch"
  /\ wdt' = feed(wdt)
  /\ blocking' = [blocking EXCEPT !.call = "fetch"]
  /\ pc' = "http"
  /\ UNCHANGED <<loop_state, link_up>>

\* get_data.py line 227 and main.py lines 134-137: requests.get() returns or
\* raises within its timeout; a feed follows unless get_data() raised.
HttpReturns ==
  /\ pc = "http"
  /\ \E d \in 0..HTTP_TIMEOUT, raised \in BOOLEAN :
       wdt' = IF raised THEN Elapse(wdt, d) ELSE feed(Elapse(wdt, d))
  /\ blocking' = [blocking EXCEPT !.call = "none"]
  /\ pc' = "flush"
  /\ UNCHANGED <<loop_state, link_up>>

\* ssd1683.py lines 140-147 (show, _update): the frame is written and the
\* refresh triggered; the panel raises BUSY.
Flush ==
  /\ pc = "flush"
  /\ blocking' = [blocking EXCEPT !.call = "epd_wait", !.busy = TRUE]
  /\ pc' = "epd_wait"
  /\ UNCHANGED <<loop_state, link_up, wdt>>

\* ssd1683.py line 57: while self._busy.value() == 1
EpdPoll ==
  /\ pc = "epd_wait"
  /\ pc' = IF blocking.busy THEN "epd_sleep" ELSE "tick_end"
  /\ blocking' = IF blocking.busy THEN blocking ELSE [blocking EXCEPT !.call = "none"]
  /\ UNCHANGED <<loop_state, link_up, wdt>>

\* ssd1683.py line 58: sleep_ms(1); the millisecond completes a second or
\* does not.
EpdSleep ==
  /\ pc = "epd_sleep"
  /\ \E d \in 0..1 : wdt' = Elapse(wdt, d)
  /\ pc' = "epd_wait"
  /\ UNCHANGED <<loop_state, link_up, blocking>>

\* The panel finishes the refresh and lowers BUSY.
PinReady ==
  /\ pc \in {"epd_wait", "epd_sleep"}
  /\ blocking.busy
  /\ blocking' = [blocking EXCEPT !.busy = FALSE]
  /\ UNCHANGED <<pc, loop_state, link_up, wdt>>

\* main.py lines 154 and 178: the feed after the display update, the sleep
\* of one second; meanwhile the link may drop or come back.
TickEnd ==
  /\ pc = "tick_end"
  /\ wdt' = Elapse(feed(wdt), 1)
  /\ \E up \in BOOLEAN : link_up' = up
  /\ pc' = "loop"
  /\ UNCHANGED <<loop_state, blocking>>

\* The steps of the program, which the processor keeps taking.
BlockingProgram ==
  \/ LoopTop
  \/ ReconnectSleep
  \/ ConnectReset
  \/ ConnectAlready
  \/ ConnectInitiate
  \/ ConnectWaitDone
  \/ ConnectWaitTimeout
  \/ ConnectWaitSpin
  \/ FetchBegin
  \/ HttpReturns
  \/ Flush
  \/ EpdPoll
  \/ EpdSleep
  \/ TickEnd

BlockingNext == BlockingProgram \/ PinReady

BlockingSpec == BlockingInit /\ [][BlockingNext]_vars

\* The program keeps running; nothing obliges the panel to lower BUSY.
BlockingFairSpec == BlockingSpec /\ WF_vars(BlockingProgram)

\* The positions inside reconnect(), fetch and _wait().
InReconnect == pc \in {"connect", "connect_check", "connect_wait"}

InHttp == pc = "http"

InEpdWait == pc \in {"epd_wait", "epd_sleep"}

(***************************************************************************)
(* Steps of the poll loop, named for the properties below.                 *)
(***************************************************************************)
FailureKinds == {"exception", "no_data", "invalid_data"}

\* The step in which reconnect() returned False.
ReconnectFailStep == pc = "wifi" /\ reconnect_result' = "failed"

\* The step in which a due fetch gave no data.
FetchFailStep == pc = "fetch" /\ fetch_result' \in FailureKinds

\* The step that ends a successful fetch.
FetchSuccessStep == pc = "mark_fresh" /\ pc' = "stale_check"

\* The step in which machine.reset() is called.
RestartStep == restarts' # restarts \/ (pc # "reset" /\ pc' = "reset")

\* The last call of the display module drew the bottom status row.
StatusRowDrawn == display.flushes # << >> /\ display.frame.status # BlankStatus

(***************************************************************************)
(* C1.  If every fetch attempt fails continuously for (stale-restart        *)
(* threshold + 1) seconds, the loop restarts the device, exactly once:      *)
(* no tick of such a streak of failures passes the stale check without a    *)
(* restart, and no more than one restart is issued.  The code resets the    *)
(* fetch timer at every failed fetch, so this fails.                        *)
(***************************************************************************)
C1_RestartAfterStaleThreshold ==
  /\ restarts <= 1
  /\ ~(/\ pc = "display"
       /\ fail_since # NoTime
       /\ current_time - fail_since >= STALE_RESTART_THRESHOLD + 1)

(***************************************************************************)
(* C2.  A restart is issued only in the FATAL condition: the step that      *)
(* calls machine.reset() is the stale check of the poll loop (never the     *)
(* Wi-Fi step), the stale flag is set, and the time since the fetch timer   *)
(* and since the last successful fetch exceeds the restart threshold.       *)
(***************************************************************************)
C2_RestartOnlyWhenFatal ==
  [][RestartStep =>
       /\ pc = "stale_check"
       /\ using_stale_data
       /\ current_time - last_data_fetch > STALE_RESTART_THRESHOLD
       /\ (last_success # NoTime =>
             current_time - last_success > STALE_RESTART_THRESHOLD)
       /\ restarts' = restarts + 1]_vars

\* A restart after data had been fetched successfully before.
C2_Witness == pc = "reset" /\ restarts = 1 /\ last_success # NoTime

(***************************************************************************)
(* C3.  The stale flag goes from false to true exactly in a step in which   *)
(* a reconnection or a fetch fails, each such step leaves it true, it goes  *)
(* from true to false exactly in the step that ends a successful fetch,     *)
(* and after a successful fetch it is false for the rest of the tick.       *)
(***************************************************************************)
C3_StaleFlagTransitions ==
  [][/\ (~using_stale_data /\ using_stale_data') => (ReconnectFailStep \/ FetchFailStep)
     /\ (ReconnectFailStep \/ FetchFailStep) => using_stale_data'
     /\ (using_stale_data /\ ~using_stale_data') => FetchSuccessStep
     /\ FetchSuccessStep => ~using_stale_data'
     /\ (fetch_result' = "ok" /\ pc' \in {"stale_check", "display", "sleep", "tick"})
          => ~using_stale_data']_vars

\* A tick in which the reconnection failed and the fetch then succeeded.
C3_Witness ==
  /\ pc = "sleep"
  /\ reconnect_result = "failed"
  /\ fetch_result = "ok"
  /\ ~using_stale_data

(***************************************************************************)
(* C4, as claimed.  The loop is stale only when fetch failures have         *)
(* persisted for one fetch interval: a single failed fetch does not put     *)
(* the loop in the stale state.                                             *)
(***************************************************************************)
C4_StaleOnlyPastInterval ==
  using_stale_data =>
    (fail_since # NoTime /\ current_time - fail_since >= DATA_REFRESH_INTERVAL)

(***************************************************************************)
(* C4, amended.  The loop is stale from the first failed fetch on: in       *)
(* every state between the first failed fetch after a success (or after     *)
(* the start) and the next successful fetch the stale flag is set, however  *)
(* short the time since that failure.                                       *)
(***************************************************************************)
C4_StaleFromFirstFailure ==
  fail_since # NoTime => using_stale_data

\* Stale in a tick less than one fetch interval after a first failed fetch.
C4_Witness ==
  /\ pc = "display"
  /\ using_stale_data
  /\ fail_since # NoTime
  /\ current_time > fail_since
  /\ current_time - fail_since < DATA_REFRESH_INTERVAL

(***************************************************************************)
(* C5.  has_displayed_data never goes back to false; once it is true the    *)
(* frame shows departure data after every step (never the error screen),    *)
(* and a failed fetch leaves the departure area of the frame unchanged.     *)
(***************************************************************************)
C5_NoErrorScreenAfterData ==
  [][/\ has_displayed_data => has_displayed_data'
     /\ has_displayed_data => display'.frame.area.kind = "data"
     /\ (has_displayed_data /\ FetchFailStep) =>
          (display'.frame.area = display.frame.area /\ display'.flushes = << >>)]_vars

\* A failed fetch after departure data had been displayed.
C5_Witness ==
  /\ pc = "fail_sleep"
  /\ has_displayed_data
  /\ fetch_result \in FailureKinds
  /\ display.frame.area.kind = "data"

(***************************************************************************)
(* C6.  Whenever the bottom status row has just been drawn over departure   *)
(* data, the stale state of the display equals the stale flag of the loop.  *)
(* The code hands the flag to the display only in draw_wifi_status, which   *)
(* is called only on a successful fetch, so this fails.                     *)
(***************************************************************************)
C6_MarkerTracksStaleFlag ==
  (/\ has_displayed_data
   /\ pc \in {"wifi_status", "mark_fresh", "sleep"}
   /\ StatusRowDrawn)
    => display._wifi_stale_data = using_stale_data

(***************************************************************************)
(* C7.  The LED mirrors the stale flag: a step that changes the flag        *)
(* leaves the LED equal to it, a failed reconnection or fetch turns the     *)
(* LED on, the end of a successful fetch turns it off, and at the end of    *)
(* every tick the LED is on iff the flag is set.                            *)
(***************************************************************************)
C7_LedMirrorsStaleFlag ==
  [][/\ using_stale_data' # using_stale_data => led' = using_stale_data'
     /\ (ReconnectFailStep \/ FetchFailStep) => led'
     /\ FetchSuccessStep => ~led'
     /\ pc' \in {"sleep", "fail_sleep"} => led' = using_stale_data']_vars

\* The end of a tick in which the reconnection failed and no fetch was due.
C7_Witness ==
  /\ pc = "sleep"
  /\ reconnect_result = "failed"
  /\ fetch_result = "not_due"
  /\ led
  /\ using_stale_data

(***************************************************************************)
(* C8.  A fetch that raises, returns no data or returns data of invalid     *)
(* shape is one and the same failed fetch: whatever the kind, the step      *)
(* sets the stale flag and the LED, sets the fetch timer to the tick time,  *)
(* draws the error screen only if no data was displayed yet, and goes on    *)
(* to the sleep that leads to the next tick; nothing is propagated.         *)
(***************************************************************************)
C8_FailedFetchHandledUniformly ==
  [][/\ FetchFailStep =>
          /\ using_stale_data'
          /\ led'
          /\ last_data_fetch' = current_time
          /\ data' = None
          /\ display' = (IF has_displayed_data
                           THEN clear_cached_departures(display)
                           ELSE write_error_to_display(clear_cached_departures(display),
                                                       "Error fetching data"))
          /\ restarts' = restarts
          /\ pc' = "fail_sleep"
     /\ pc = "fail_sleep" => pc' = "tick"]_vars

\* The tick after a fetch that raised an exception.
C8_Witness ==
  /\ pc = "tick"
  /\ fetch_result = "exception"
  /\ using_stale_data
  /\ last_data_fetch = current_time

(***************************************************************************)
(* C9.  The refresh counter is always below the full-refresh interval:      *)
(* 0 <= _refresh_count < full_refresh_interval_cycles after init_display    *)
(* and any sequence of calls of the display module.                         *)
(***************************************************************************)
C9_RefreshCountBelowInterval ==
  /\ 0 <= display._refresh_count
  /\ display._refresh_count < full_refresh_interval

\* The counter at its largest value, after it has wrapped once.
C9_Witness ==
  /\ full_refresh_interval >= 2
  /\ display.run_full >= 1
  /\ display._refresh_count = full_refresh_interval - 1

(***************************************************************************)
(* C10.  A run of N consecutive data redraws (write_to_display, also when   *)
(* called by update_arriving_animation) performs floor(N / fullInterval)    *)
(* full flushes and N - floor(N / fullInterval) partial flushes, one flush  *)
(* per call, besides the full flush of init_display.                        *)
(***************************************************************************)
C10_FullFlushEveryInterval ==
  [][/\ display'.run_full = display'.run_redraws \div full_refresh_interval
     /\ display'.run_partial = display'.run_redraws - display'.run_full
     /\ display'.run_redraws = display.run_redraws + 1 =>
          /\ Len(display'.flushes) = 1
          /\ display'.flushes[1] =
               (IF display'.run_redraws % full_refresh_interval = 0
                  THEN "full" ELSE "partial")]_vars

\* Five redraws with interval 2: two full and three partial flushes.
C10_Witness ==
  /\ full_refresh_interval >= 2
  /\ display.run_full >= 2
  /\ display.run_partial >= 3

(***************************************************************************)
(* The messages main.py hands to the start screen and to the error screen. *)
(***************************************************************************)
StartMessages == {"Connecting to Wi-Fi...", "Syncing time...", "Fetching data..."}

ErrorMessages == {"Wi-Fi connection failed", "Error fetching data"}

(***************************************************************************)
(* C11, as claimed.  In every state of the display module, a call of        *)
(* write_error_to_display and a call of write_start_msg_to_display end      *)
(* with a full refresh and with the refresh counter equal to 0.             *)
(***************************************************************************)
C11_ScreensForceFullFlush ==
  /\ \A msg \in ErrorMessages :
       LET D == write_error_to_display(display, msg)
       IN D.flushes = <<"full">> /\ D._refresh_count = 0
  /\ \A msg \in StartMessages :
       LET D == write_start_msg_to_display(display, msg)
       IN D.flushes = <<"full">> /\ D._refresh_count = 0

(***************************************************************************)
(* C11, amended.  In every state of the display module, a call of           *)
(* write_error_to_display ends with one full refresh and with the refresh   *)
(* counter equal to 0, and a call of write_start_msg_to_display draws the   *)
(* start screen with one partial refresh and leaves the refresh counter as  *)
(* it was.                                                                  *)
(***************************************************************************)
C11_ErrorFullStartPartial ==
  /\ \A msg \in ErrorMessages :
       LET D == write_error_to_display(display, msg)
       IN /\ D.flushes = <<"full">>
          /\ D._refresh_count = 0
          /\ D.frame.area.kind = "error"
  /\ \A msg \in StartMessages :
       LET D == write_start_msg_to_display(display, msg)
       IN /\ D.flushes = <<"partial">>
          /\ D._refresh_count = display._refresh_count
          /\ D.frame.area.kind = "boot"

\* The start screen drawn by a partial flush while the counter is not 0.
C11_Witness ==
  /\ display.frame.area.kind = "boot"
  /\ display.flushes = <<"partial">>
  /\ display._refresh_count > 0

(***************************************************************************)
(* C12.  update_current_time and draw_wifi_status never perform a full      *)
(* flush, whatever the refresh counter: in every state of the display       *)
(* module a call of draw_wifi_status performs one partial flush, a call of  *)
(* update_current_time one partial flush when the minute has changed and    *)
(* none otherwise; both leave the refresh counter, the cached dataset, the  *)
(* animation phase and the departure area unchanged.                        *)
(***************************************************************************)
C12_ClockAndStatusArePartial ==
  LET Kept(D) ==
        /\ D._refresh_count = display._refresh_count
        /\ D._cached_departures = display._cached_departures
        /\ D._arriving_indicator_state = display._arriving_indicator_state
        /\ D.frame.area = display.frame.area
      U == update_current_time(display, now)
  IN /\ Kept(U)
     /\ U.flushes =
          (IF localtime(now + get_timezone_offset(now)).minute
                = display._last_displayed_minute
             THEN << >> ELSE <<"partial">>)
     /\ \A connected \in BOOLEAN, stale_data \in BOOLEAN :
          LET W == draw_wifi_status(display, connected, stale_data)
          IN Kept(W) /\ W.flushes = <<"partial">>

\* The clock redrawn by a partial flush over departure data while the
\* refresh counter is at its largest value.
C12_Witness ==
  /\ display.frame.area.kind = "data"
  /\ display._refresh_count = full_refresh_interval - 1
  /\ display._refresh_count > 0
  /\ display.flushes = <<"partial">>
  /\ display._last_displayed_minute = localtime(now + get_timezone_offset(now)).minute
  /\ display._last_update_time < now
  /\ display.frame.status.clock = ClockText(now)

(***************************************************************************)
(* C13.  Every tick of the poll loop begins with a watchdog feed: the step  *)
(* that starts a tick feeds the watchdog, so in every later position of     *)
(* the tick, also on the path of a failed fetch and after a failed          *)
(* reconnection, and when the next tick is about to start, the watchdog     *)
(* has been fed at least once since the tick started.                       *)
(***************************************************************************)
C13_FeedOnEveryTick ==
  [][/\ (pc = "tick" /\ pc' # "tick") =>
          (wdt'.unfed = 0 /\ wdt'.tick_feeds = 1)
     /\ pc' \in {"wifi", "fetch", "render", "wifi_status", "mark_fresh",
                 "stale_check", "display", "sleep", "fail_sleep", "reset"} =>
          wdt'.tick_feeds >= 1
     /\ (pc \in {"sleep", "fail_sleep"} /\ pc' = "tick") =>
          wdt'.tick_feeds >= 1]_vars

\* The next tick is about to start after a tick in which the reconnection
\* failed and the fetch raised, so that the tick ended early.
C13_Witness ==
  /\ pc = "tick"
  /\ reconnect_result = "failed"
  /\ fetch_result = "exception"
  /\ wdt.tick_feeds = 2
  /\ wdt.unfed >= 1

(***************************************************************************)
(* C14.  No blocking call blocks indefinitely: whenever the fetch, the      *)
(* reconnect or the display-ready wait has gone some time without a feed,   *)
(* the call returns or the watchdog is fed.  SSD1683._wait has no bound     *)
(* and no feed, so this fails while the panel holds BUSY.                   *)
(***************************************************************************)
C14_NoCallBlocksForever ==
  /\ (InHttp /\ wdt.unfed > 0) ~> (~InHttp \/ wdt.unfed = 0)
  /\ (InReconnect /\ wdt.unfed > 0) ~> (~InReconnect \/ wdt.unfed = 0)
  /\ (InEpdWait /\ wdt.unfed > 0) ~> (~InEpdWait \/ wdt.unfed = 0)

(***************************************************************************)
(* C15.  A tick makes at most one reconnection, and inside the              *)
(* reconnection the watchdog is never unfed for longer than its timeout,    *)
(* whatever the reconnect delay and the connection timeout.  The delay and  *)
(* the second of the interface reset pass without a feed, so this fails.    *)
(***************************************************************************)
C15_ReconnectKeepsWatchdogFed ==
  /\ blocking.attempts <= 1
  /\ InReconnect => wdt.unfed <= wdt.timeout

(***************************************************************************)
(* C16.  A failed reconnection does not halt the poll loop: the step in     *)
(* which reconnect() returns False leads to the fetch step of the same      *)
(* tick with the fetch timer untouched, a due fetch is then attempted, the  *)
(* tick ends in the sleep that leads to the next tick unless the stale      *)
(* check finds the restart condition, and in every tick that finds the      *)
(* link down a reconnection is attempted.                                   *)
(***************************************************************************)
C16_ReconnectFailureKeepsLoop ==
  [][/\ ReconnectFailStep =>
          /\ pc' = "fetch"
          /\ restarts' = restarts
          /\ last_data_fetch' = last_data_fetch
          /\ current_time' = current_time
     /\ (pc = "fetch" /\ reconnect_result = "failed") =>
          (IF FetchDue THEN fetch_result' \in FailureKinds \cup {"ok"}
                       ELSE fetch_result' = "not_due")
     /\ (pc = "stale_check" /\ reconnect_result = "failed" /\ ~StaleTooLong) =>
          pc' = "display"
     /\ (pc \in {"display", "sleep", "fail_sleep"} /\ reconnect_result = "failed") =>
          pc' \in {"sleep", "tick"}
     /\ (pc = "wifi" /\ ~link_up) => reconnect_result' \in {"ok", "failed"}]_vars

\* A tick that finds the link still down after a tick whose reconnection
\* failed: the stale flag is set although no fetch has failed since the
\* last success.
C16_Witness ==
  /\ pc = "wifi"
  /\ ~link_up
  /\ using_stale_data
  /\ fail_since = NoTime
  /\ last_success # NoTime
  /\ current_time > last_success

(***************************************************************************)
(* C17.  In every tick in which the HOME button is read as pressed, a       *)
(* fetch is attempted in that same tick, whatever the time since the last   *)
(* fetch and whatever the device time.  The code forces the fetch by        *)
(* setting the fetch timer to 0, which makes the fetch due only when the    *)
(* device time is at least the fetch interval, so this fails on a clock     *)
(* that has not been synchronised.                                          *)
(***************************************************************************)
C17_RefreshForcesFetch ==
  [][(pc = "fetch" /\ action = "refresh") =>
       fetch_result' \in FailureKinds \cup {"ok"}]_vars

(***************************************************************************)
(* C18.  After a fetch attempt at tick time t, successful or failed, and    *)
(* with no refresh input since, the fetch step of a tick attempts a fetch   *)
(* exactly when the tick time is at least t + the fetch interval: no        *)
(* attempt in an earlier tick, an attempt in the first tick that late.      *)
(***************************************************************************)
C18_RetryAtNextInterval ==
  [][(pc = "fetch" /\ attempt.time # NoTime /\ ~attempt.refreshed) =>
       IF current_time >= attempt.time + DATA_REFRESH_INTERVAL
         THEN /\ fetch_result' \in FailureKinds \cup {"ok"}
              /\ attempt'.time = current_time
         ELSE /\ fetch_result' = "not_due"
              /\ attempt' = attempt]_vars

\* A fetch that failed is retried, with success, in a tick one fetch
\* interval of two seconds or more later, the fetch timer untouched by a
\* refresh input.
C18_Witness ==
  /\ pc = "render"
  /\ DATA_REFRESH_INTERVAL >= 2
  /\ fail_since # NoTime
  /\ last_data_fetch = fail_since
  /\ last_data_fetch > 0
  /\ current_time >= last_data_fetch + DATA_REFRESH_INTERVAL

(***************************************************************************)
(* C19.  On startup failure the loop does not start.  When the Wi-Fi        *)
(* connection fails in initialize(), the error screen 'Wi-Fi connection     *)
(* failed' is shown with a full flush and the program ends without a        *)
(* single tick; the loop is entered only from initialize() with the link    *)
(* up, and then the error screen of the startup is not shown.               *)
(***************************************************************************)
C19_LoopOnlyAfterConnect ==
  [][/\ (pc = "init" /\ ~link_up') =>
          /\ pc' = "halt"
          /\ display'.frame.area =
               [kind |-> "error", msg |-> "Wi-Fi connection failed", rows |-> << >>]
          /\ display'.flushes = <<"full">>
          /\ display'._refresh_count = 0
     /\ (pc = "init" /\ link_up') =>
          /\ pc' = "tick"
          /\ display'.frame.area.kind = "boot"
     /\ (pc = "init" /\ pc' = "tick") => link_up'
     /\ pc = "halt" => pc' = "halt"
     /\ pc' = "halt" => (current_time' = 0 /\ wdt'.tick_feeds = 0 /\ ~link_up')]_vars

\* initialize() has returned False: the error screen, and no tick.
C19_Witness ==
  /\ pc = "halt"
  /\ display.frame.area.kind = "error"
  /\ display.flushes = <<"full">>
  /\ ~link_up
  /\ current_time = 0

\* At least one departure that write_to_display draws (after the U4 filter,
\* among the first four of its row) is arriving now.
VisibleArriving(cached) ==
  IF cached = None THEN FALSE
  ELSE LET lines == FlattenLines(cached.items)
       IN \E l \in DOMAIN lines :
            LET shown == VisibleCountdowns(lines[l].name, lines[l])
            IN \E i \in DOMAIN shown : shown[i] = 0

(***************************************************************************)
(* C20.  The display-update step of a tick does exactly one of two things:  *)
(* if the animation interval has elapsed and a visible departure is         *)
(* arriving now, the animation phase is toggled and the display redrawn     *)
(* from the cached dataset, without a fetch; in every other case            *)
(* update_current_time runs.  In the code the clock update is the else      *)
(* branch of the interval test alone, so it is skipped whenever the         *)
(* interval has elapsed, also when nothing is arriving: this fails.         *)
(***************************************************************************)
C20_AnimateOrClockUpdate ==
  [][pc = "display" =>
       IF /\ current_time - last_animation_toggle >= ANIMATION_INTERVAL
          /\ VisibleArriving(display._cached_departures)
         THEN /\ display' =
                   write_to_display(
                     [display EXCEPT !._arriving_indicator_state = ~@],
                     display._cached_departures, now, full_refresh_interval)
              /\ fetch_result' = fetch_result
              /\ attempt' = attempt
         ELSE display' = update_current_time(display, now)]_vars

\* A square (the arriving marker) is drawn in a time slot of the rows.
SquareDrawn(rows) ==
  \E r \in DOMAIN rows :
    \E i \in DOMAIN rows[r].times :
      rows[r].times[i] \in {"square_top_right", "square_bottom_left"}

(***************************************************************************)
(* C21.  Whenever update_arriving_animation toggles the animation phase    *)
(* and re-renders, the rows rendered from the cached dataset (after the    *)
(* U4 minimum-lead-time filter and the truncation to four values) hold at  *)
(* least one countdown 0, drawn as the square.  The test of the code       *)
(* looks at the first four unfiltered departures of every line, so a U4    *)
(* departure at countdown 0, which the filter hides, toggles the phase:    *)
(* this fails.                                                             *)
(***************************************************************************)
C21_ToggleOnlyWhenVisibleArriving ==
  [][display'._arriving_indicator_state # display._arriving_indicator_state =>
       /\ VisibleArriving(display'._cached_departures)
       /\ SquareDrawn(display'.frame.area.rows)]_vars

(***************************************************************************)
(* LayoutSpec: the layout of write_to_display as a function of its input.  *)
(* The input is drawn at the start: either up to MaxLines lines of any     *)
(* name and direction, one stop per line, where the lines 49 and U4 come   *)
(* with either of two countdown rows (so that lines of equal sort key can  *)
(* differ); or one line of name 49 or U4 with any countdown sequence of up *)
(* to MaxDepartures values.  The one step renders it.                      *)
(***************************************************************************)
LineNames == {NamesInOrder[i] : i \in DOMAIN NamesInOrder}

Directions == {"R", "H"}

CountdownRows == {<<3, 9>>, <<0, 7>>}

CountdownValues == {2, 5, 6, 8, 12}

LayoutLines ==
  {Line(n, d, <<3, 9>>) : n \in LineNames, d \in Directions}
    \cup {Line(n, d, c) : n \in {"49", "U4"}, d \in Directions, c \in CountdownRows}

OneStop(seq) == PyList(<<Stop(seq)>>)

StopPerLine(seq) == PyList([i \in DOMAIN seq |-> Stop(<<seq[i]>>)])

\* The input is one of the datasets described above.
LayoutInput(d) ==
  \/ \E k \in 1..MaxLines : \E seq \in [1..k -> LayoutLines] :
        d = StopPerLine(seq)
  \/ \E k \in 0..MaxDepartures : \E c \in [1..k -> CountdownValues] :
        \E n \in {"49", "U4"} : d = OneStop(<<Line(n, "R", c)>>)

LayoutInit ==
  /\ pc = "layout"
  /\ LayoutInput(data)
  /\ boot_time = SyncedStart
  /\ unicode_case = FALSE
  /\ now = boot_time
  /\ DATA_REFRESH_INTERVAL = 1
  /\ ANIMATION_INTERVAL = 1
  /\ STALE_RESTART_THRESHOLD = 0
  /\ full_refresh_interval = 1
  /\ current_time = 0
  /\ last_data_fetch = 0
  /\ last_animation_toggle = 0
  /\ has_displayed_data = FALSE
  /\ using_stale_data = FALSE
  /\ led = FALSE
  /\ link_up = FALSE
  /\ display = init_display(DisplayGlobals)
  /\ fetch_result = "idle"
  /\ reconnect_result = "idle"
  /\ last_success = NoTime
  /\ fail_since = NoTime
  /\ restarts = 0
  /\ action = "None"
  /\ wdt = WatchdogOff
  /\ attempt = NoAttempt
  /\ blocking = NotBlocking

\* write_to_display(data)
LayoutRender ==
  /\ pc = "layout"
  /\ display' = write_to_display(display, data, now, full_refresh_interval)
  /\ pc' = "drawn"
  /\ UNCHANGED <<now, config, locals, led, link_up, history, action, wdt, attempt, blocking>>

LayoutNext == LayoutRender

LayoutSpec == LayoutInit /\ [][LayoutNext]_vars

\* The lines in the order their rows are drawn: group by group.
RECURSIVE LinesFrom(_, _, _)
LinesFrom(group_idx, order, lines) ==
  IF group_idx > Len(order) THEN << >>
  ELSE SelectLines(lines, order[group_idx]) \o LinesFrom(group_idx + 1, order, lines)

RenderOrder(stops) ==
  LET lines == sorted(FlattenLines(stops.items))
  IN LinesFrom(1, GroupOrder(lines), lines)

\* The sequence s with the elements at i and i + 1 exchanged.
Swap(s, i) ==
  [k \in DOMAIN s |-> IF k = i THEN s[i + 1] ELSE IF k = i + 1 THEN s[i] ELSE s[k]]

IsPriority(name) == InSeq(get_line_priority, name)

\* The rows on the panel are the rows of these lines, in this order.
RowsShow(rows, order) ==
  /\ Len(rows) = Len(order)
  /\ \A r \in DOMAIN rows :
       Len(rows[r].times) = Len(VisibleCountdowns(order[r].name, order[r]))

(***************************************************************************)
(* C22.  After write_to_display the rows are ordered so that configured    *)
(* priority lines come first in the configured order, then all remaining   *)
(* lines in alphabetical order of their identifier, and within one         *)
(* identifier direction 'R' leads; and the order does not depend on the    *)
(* order of the input (exchanging two neighbouring input lines changes     *)
(* nothing).  The direction is compared before the name, so a remaining    *)
(* line of direction R precedes an alphabetically smaller one of direction *)
(* H, and lines of equal key keep their input order: this fails.           *)
(***************************************************************************)
C22_PriorityThenAlphabetical ==
  pc = "drawn" =>
    LET order == RenderOrder(data)
        input == FlattenLines(data.items)
    IN /\ RowsShow(display.frame.area.rows, order)
       /\ \A i \in DOMAIN order : \A j \in DOMAIN order :
            i < j =>
              /\ IsPriority(order[j].name) =>
                   /\ IsPriority(order[i].name)
                   /\ IndexOf(get_line_priority, order[i].name)
                        <= IndexOf(get_line_priority, order[j].name)
              /\ (~IsPriority(order[i].name) /\ ~IsPriority(order[j].name)) =>
                   NameRank(order[i].name) <= NameRank(order[j].name)
              /\ order[i].name = order[j].name =>
                   ~(order[i].direction # "R" /\ order[j].direction = "R")
       /\ \A i \in 1..(Len(input) - 1) :
            RenderOrder(OneStop(Swap(input, i))) = order

\* The minimum lead time of a line, in minutes (0: none).
MinLead(line_name) == IF line_name = "U4" THEN U4MinCountdown ELSE 0

(***************************************************************************)
(* C23.  Every row drawn by write_to_display shows at most four countdown  *)
(* values; a row of U4 shows no countdown below 6; and the values shown    *)
(* are, in order, the first four departures of the line that satisfy the   *)
(* minimum of the line (the k-th slot shows the k-th such departure).      *)
(***************************************************************************)
C23_FilterThenFirstFour ==
  pc = "drawn" =>
    LET order == RenderOrder(data)
        rows == display.frame.area.rows
        phase == display._arriving_indicator_state
    IN /\ Len(rows) = Len(order)
       /\ \A r \in DOMAIN rows :
            LET deps == order[r].departures
                ok == {i \in DOMAIN deps : deps[i].countdown >= MinLead(order[r].name)}
                kth(k) == CHOOSE i \in ok : Cardinality({j \in ok : j < i}) = k - 1
                times == rows[r].times
            IN /\ Len(times) <= 4
               /\ Len(times) = IF Cardinality(ok) < 4 THEN Cardinality(ok) ELSE 4
               /\ \A k \in DOMAIN times : times[k] = TimeSlot(deps[kth(k)].countdown, phase)
               /\ order[r].name = "U4" =>
                    \A k \in DOMAIN times :
                      times[k] \notin {TimeSlot(c, phase) : c \in 0..(U4MinCountdown - 1)}

\* U4 departures [2, 5, 8, 12] are drawn as 8 and 12.
C23_Witness ==
  /\ pc = "drawn"
  /\ data = OneStop(<<Line("U4", "R", <<2, 5, 8, 12>>)>>)
  /\ Len(display.frame.area.rows) = 1
  /\ display.frame.area.rows[1].times = <<"8", "12">>

\* Row r is the first row of its group.
FirstOfGroup(order, r) == r = 1 \/ order[r - 1].name # order[r].name

(***************************************************************************)
(* C24.  After write_to_display every input line has one row; the rows of  *)
(* lines with one identifier are contiguous, wherever the sort put the     *)
(* lines; each identifier is drawn exactly once, on the first row of its   *)
(* group and on no other; the first row of a group has the first-row       *)
(* height and the later rows the shorter one; and a separator is drawn     *)
(* before the first row of every group except the first group, so there    *)
(* are (number of groups - 1) separators.                                  *)
(***************************************************************************)
C24_GroupsAreContiguous ==
  pc = "drawn" =>
    LET order == RenderOrder(data)
        rows == display.frame.area.rows
        names == {order[r].name : r \in DOMAIN order}
    IN /\ Len(rows) = Len(FlattenLines(data.items))
       /\ RowsShow(rows, order)
       /\ \A i \in DOMAIN order : \A k \in DOMAIN order :
            (i < k /\ order[i].name = order[k].name) =>
              \A j \in i..k : order[j].name = order[i].name
       /\ \A n \in names : Cardinality({r \in DOMAIN rows : rows[r].name = n}) = 1
       /\ \A r \in DOMAIN rows :
            /\ rows[r].name = (IF FirstOfGroup(order, r) THEN order[r].name ELSE "")
            /\ rows[r].height = (IF FirstOfGroup(order, r) THEN GROUP_FIRST_ROW_HEIGHT
                                                          ELSE GROUP_SUB_ROW_HEIGHT)
            /\ rows[r].separator = (FirstOfGroup(order, r) /\ r > 1)
       /\ Cardinality({r \in DOMAIN rows : rows[r].separator}) = Cardinality(names) - 1

\* The sort separates the two lines 10A (13A of direction R lies between
\* them); they are drawn as one group, then 13A behind a separator.
C24_Witness ==
  /\ pc = "drawn"
  /\ LET lines == sorted(FlattenLines(data.items))
     IN /\ Len(lines) = 3
        /\ lines[1].name = "10A" /\ lines[2].name = "13A" /\ lines[3].name = "10A"
  /\ Len(display.frame.area.rows) = 3
  /\ display.frame.area.rows[1].name = "10A"
  /\ display.frame.area.rows[2].name = ""
  /\ display.frame.area.rows[2].height = GROUP_SUB_ROW_HEIGHT
  /\ display.frame.area.rows[3].name = "13A"
  /\ display.frame.area.rows[3].separator

TowardsAlphabet == {"a", "A", "e", "ü", "Ü", "ß", ",", " "}

\* One character in lower case, with Unicode case mapping.
LowerChar(c) ==
  IF \E i \in DOMAIN UpperAscii : UpperAscii[i] = c
    THEN LowerAscii[CHOOSE i \in DOMAIN UpperAscii : UpperAscii[i] = c]
  ELSE CASE c = "Ä" -> "ä"
         [] c = "Ö" -> "ö"
         [] c = "Ü" -> "ü"
         [] OTHER -> c

lower(s) == [i \in DOMAIN s |-> LowerChar(s[i])]

LineTo(name, direction, towards, countdowns) ==
  [py |-> "dict", name |-> name, direction |-> direction, towards |-> towards,
   departures |-> [i \in DOMAIN countdowns |-> [py |-> "dict", countdown |-> countdowns[i]]]]

ShortenInit ==
  /\ pc = "layout"
  /\ \E t \in UNION {[1..k -> TowardsAlphabet] : k \in 0..MaxTowardsLen}
               \cup UNION {{shortnames[i].key,
                            lower(shortnames[i].key),
                            <<" ">> \o shortnames[i].key \o <<" ">>,
                            shortnames[i].key \o <<",", " ", "U">>,
                            shortnames[i].value} : i \in DOMAIN shortnames} :
       data = OneStop(<<LineTo("49", "R", t, <<3, 9>>)>>)
  /\ boot_time = SyncedStart
  /\ unicode_case \in BOOLEAN
  /\ now = boot_time
  /\ DATA_REFRESH_INTERVAL = 1
  /\ ANIMATION_INTERVAL = 1
  /\ STALE_RESTART_THRESHOLD = 0
  /\ full_refresh_interval = 1
  /\ current_time = 0
  /\ last_data_fetch = 0
  /\ last_animation_toggle = 0
  /\ has_displayed_data = FALSE
  /\ using_stale_data = FALSE
  /\ led = FALSE
  /\ link_up = FALSE
  /\ display = init_display(DisplayGlobals)
  /\ fetch_result = "idle"
  /\ reconnect_result = "idle"
  /\ last_success = NoTime
  /\ fail_since = NoTime
  /\ restarts = 0
  /\ action = "None"
  /\ wdt = WatchdogOff
  /\ attempt = NoAttempt
  /\ blocking = NotBlocking

ShortenSpec == ShortenInit /\ [][LayoutNext]_vars

\* The destination given with the one line of the input.
TowardsGiven == Towards(FlattenLines(data.items)[1])

(***************************************************************************)
(* C26.  The destination drawn is _shorten_destination of the destination  *)
(* given; shortening the drawn text again returns it unchanged; and a      *)
(* destination that is a known long name, in any mix of upper and lower    *)
(* case, is drawn exactly as the abbreviation the table has for it.  The   *)
(* umlauts are replaced after the table is consulted, so HÜTTELDORF is     *)
(* drawn as Huetteldorf and not as the table's Hütteldorf: this fails.     *)
(***************************************************************************)
C26_ShortenIdempotentExact ==
  pc = "drawn" =>
    LET out == display.frame.area.rows[1].towards
    IN /\ out = shorten_destination(TowardsGiven)
       /\ shorten_destination(out) = out
       /\ \A i \in DOMAIN shortnames :
            lower(TowardsGiven) = lower(shortnames[i].key) => out = shortnames[i].value

(***************************************************************************)
(* GetDataSpec: get_data as a function of what make_request gives it.      *)
(* make_request raises, returns None, or returns a value of any of these   *)
(* shapes: not a dict, a dict without 'data', with a 'data' that is no     *)
(* list, or with a list of up to MaxStops stops, with or without           *)
(* 'localeTimestamp'; a stop is no dict, a dict without 'lines', or a dict *)
(* with up to two lines; a line is no dict, lacks 'name', lacks            *)
(* 'departures', is well formed, or holds a departure that is no dict.     *)
(* The variable blocking holds the outcome of make_request; the one step   *)
(* is the call of get_data, whose result goes to data.                     *)
(***************************************************************************)
LineShapes ==
  {[py |-> "str"],
   [py |-> "dict", direction |-> "R", departures |-> << >>],
   [py |-> "dict", name |-> "49", direction |-> "R"],
   Line("49", "R", <<3>>),
   [py |-> "dict", name |-> "49", direction |-> "R", departures |-> <<[py |-> "int"]>>]}

StopShapes ==
  {[py |-> "str"], [py |-> "dict"]}
    \cup {Stop(ls) : ls \in UNION {[1..k -> LineShapes] : k \in 0..2}}

\* get_data is about to be called; make_request will do as outcome says.
Pending(outcome) == [call |-> "get_data", outcome |-> outcome]

\* make_request returns the value v.
Returns(v) == [raised |-> FALSE, value |-> v]

GetDataInit ==
  /\ pc = "request"
  /\ \/ blocking = Pending([raised |-> TRUE, value |-> None])
     \/ \E v \in {None, RespNotDict, RespNoData, RespDataNotList} :
          blocking = Pending(Returns(v))
     \/ \E k \in 0..MaxStops : \E stops \in [1..k -> StopShapes] :
          \/ blocking = Pending(Returns(Response(PyList(stops))))
          \/ blocking = Pending(Returns([py |-> "dict", data |-> PyList(stops)]))
  /\ data = None
  /\ boot_time = SyncedStart
  /\ unicode_case = FALSE
  /\ now = boot_time
  /\ DATA_REFRESH_INTERVAL = 1
  /\ ANIMATION_INTERVAL = 1
  /\ STALE_RESTART_THRESHOLD = 0
  /\ full_refresh_interval = 1
  /\ current_time = 0
  /\ last_data_fetch = 0
  /\ last_animation_toggle = 0
  /\ has_displayed_data = FALSE
  /\ using_stale_data = FALSE
  /\ led = FALSE
  /\ link_up = TRUE
  /\ display = init_display(DisplayGlobals)
  /\ fetch_result = "idle"
  /\ reconnect_result = "idle"
  /\ last_success = NoTime
  /\ fail_since = NoTime
  /\ restarts = 0
  /\ action = "None"
  /\ wdt = WatchdogOff
  /\ attempt = NoAttempt

\* data = get_data()
CallGetData ==
  /\ pc = "request"
  /\ LET result == get_data(blocking.outcome)
     IN /\ data' = result.value
        /\ fetch_result' = IF result.raised THEN "raised" ELSE "returned"
  /\ pc' = "returned"
  /\ UNCHANGED <<now, config, current_time, last_data_fetch, last_animation_toggle,
                 has_displayed_data, using_stale_data, led, link_up, display,
                 reconnect_result, last_success, fail_since, restarts,
                 action, wdt, attempt, blocking>>

GetDataNext == CallGetData

GetDataSpec == GetDataInit /\ [][GetDataNext]_vars

\* The shape the core relies on: a dict with a list 'data' and a
\* 'localeTimestamp', every stop a dict with 'lines', every line a dict
\* with 'name' and 'departures'.
ShapeOk(v) ==
  /\ v.py = "dict"
  /\ "data" \in DOMAIN v
  /\ "localeTimestamp" \in DOMAIN v
  /\ v.data.py = "list"
  /\ \A s \in DOMAIN v.data.items :
       LET stop == v.data.items[s]
       IN /\ stop.py = "dict"
          /\ "lines" \in DOMAIN stop
          /\ \A l \in DOMAIN stop.lines :
               /\ stop.lines[l].py = "dict"
               /\ "name" \in DOMAIN stop.lines[l]
               /\ "departures" \in DOMAIN stop.lines[l]

(***************************************************************************)
(* C27.  get_data hands over only validated data: when it returns a value  *)
(* other than None, make_request returned that value and it has the shape  *)
(* above; and when make_request returned None or a value of another shape, *)
(* get_data returns None (it does not raise and returns no data).          *)
(***************************************************************************)
C27_OnlyValidatedData ==
  pc = "returned" =>
    LET o == blocking.outcome
    IN /\ (fetch_result = "returned" /\ data # None) =>
            /\ ~o.raised
            /\ o.value # None
            /\ ShapeOk(o.value)
            /\ data = o.value
       /\ (~o.raised /\ (o.value = None \/ ~ShapeOk(o.value))) =>
            /\ fetch_result = "returned"
            /\ data = None

\* A response of two stops, one of them with two lines, is handed over.
C27_Witness ==
  /\ pc = "returned"
  /\ fetch_result = "returned"
  /\ data # None
  /\ Len(data.data.items) = 2
  /\ Len(data.data.items[1].lines) = 2
  /\ data = blocking.outcome.value

\* connect() returns in this step.
ConnectReturns == pc \in {"connect_check", "connect_wait"} /\ pc' = "fetch"

(***************************************************************************)
(* C28.  WLANManager.connect terminates while time advances: a call that   *)
(* has started returns True or False.  It returns True only in a step      *)
(* that observes the link connected; it returns False only from its wait,  *)
(* with the link not observed connected and more than `timeout` seconds    *)
(* elapsed since the connection was initiated; and every second of the     *)
(* wait that does not end it is within the timeout and leaves the          *)
(* watchdog just fed.                                                      *)
(***************************************************************************)
C28_ConnectTerminatesAndFeeds ==
  /\ (pc = "connect") ~> (pc = "fetch" /\ blocking.returned \in {"True", "False"})
  /\ [][/\ ConnectReturns =>
             /\ blocking'.returned \in {"True", "False"}
             /\ blocking'.returned = "True" => link_up
             /\ blocking'.returned = "False" =>
                  /\ pc = "connect_wait"
                  /\ ~link_up
                  /\ blocking.elapsed > blocking.timeout
        /\ (pc = "connect_wait" /\ pc' = "connect_wait") =>
             /\ blocking.elapsed <= blocking.timeout
             /\ blocking'.elapsed = blocking.elapsed + 1
             /\ wdt'.unfed = 0]_vars

\* connect() has returned False after waiting one second more than the
\* largest timeout, the watchdog fed during the wait.
C28_Witness ==
  /\ pc = "fetch"
  /\ blocking.returned = "False"
  /\ blocking.timeout = MaxConnectTimeout
  /\ blocking.elapsed = MaxConnectTimeout + 1
  /\ wdt.unfed = 0
  /\ ~link_up

(***************************************************************************)
(* lib/get_data.py, transform_response.  The stops of config.json are two: *)
(* at the first, line 49 in direction R and line U4 in any direction; at   *)
(* the second, line 49 in any direction.  A monitor of the API response    *)
(* is a record of its DIVA, its title and its lines; a line holds its      *)
(* departures, each a dict with a departureTime that has a countdown or    *)
(* has none.                                                               *)
(***************************************************************************)
get_line_filters ==
  ("60201438" :> (("49" :> <<"R">>) @@ ("U4" :> << >>)))
    @@ ("60200607" :> ("49" :> << >>))

Divas == {"60201438", "60200607", "60209999"}

Departure(countdown) == [py |-> "dict", departureTime |-> [py |-> "dict", countdown |-> countdown]]

DepartureNoCountdown == [py |-> "dict", departureTime |-> [py |-> "dict"]]

ApiLine(name, direction, departures) ==
  [py |-> "dict", name |-> name, direction |-> direction, towards |-> <<"A">>,
   departures |-> departures]

ApiLines ==
  {ApiLine("49", "R", <<Departure(3)>>),
   ApiLine("49", "H", <<Departure(5), DepartureNoCountdown>>),
   ApiLine("U4", "H", <<Departure(7)>>),
   ApiLine("49", "R", << >>)}

Monitor(diva, lines) == [py |-> "dict", diva |-> diva, title |-> diva, lines |-> lines]

\* Lines 129-133: dep_time.get('countdown', 0) of every departure.
Countdowns(departures) ==
  [i \in DOMAIN departures |->
     [py |-> "dict",
      countdown |-> IF "countdown" \in DOMAIN departures[i].departureTime
                      THEN departures[i].departureTime.countdown ELSE 0]]

\* Lines 118-123 and 135: the line is configured for the stop, its direction
\* is allowed, and it has a departure.
PassesFilter(line, allowed_lines) ==
  /\ line.name \in DOMAIN allowed_lines
  /\ allowed_lines[line.name] = << >> \/ InSeq(allowed_lines[line.name], line.direction)
  /\ line.departures # << >>

\* Lines 113-149: the lines of one monitor that go to the output.
RECURSIVE KeptLines(_, _)
KeptLines(lines, allowed_lines) ==
  IF lines = << >> THEN << >>
  ELSE (IF PassesFilter(lines[1], allowed_lines)
          THEN <<[py |-> "dict", name |-> lines[1].name, direction |-> lines[1].direction,
                  towards |-> lines[1].towards,
                  departures |-> Countdowns(lines[1].departures)]>>
          ELSE << >>)
         \o KeptLines(Tail(lines), allowed_lines)

\* Variant of AddToStop: every monitor gets a stop of its own.
AddToStop_NoMerge(stops, monitor, lines) ==
  IF lines = << >> THEN stops
  ELSE Append(stops, [py |-> "dict", name |-> monitor.title, diva |-> monitor.diva,
                      lines |-> lines])

\* Lines 136-149: stops_by_diva gets the lines, under a new stop if the
\* DIVA has none yet.
AddToStop(stops, monitor, lines) ==
  IF lines = << >> THEN stops
  ELSE IF \E i \in DOMAIN stops : stops[i].diva = monitor.diva
    THEN [i \in DOMAIN stops |->
            IF stops[i].diva = monitor.diva
              THEN [stops[i] EXCEPT !.lines = @ \o lines] ELSE stops[i]]
  ELSE Append(stops, [py |-> "dict", name |-> monitor.title, diva |-> monitor.diva,
                      lines |-> lines])

\* Lines 101-149: the loop over the monitors.
RECURSIVE MergeMonitors(_, _)
MergeMonitors(stops, monitors) ==
  IF monitors = << >> THEN stops
  ELSE LET monitor == monitors[1]
       IN IF monitor.diva \notin DOMAIN get_line_filters
            THEN MergeMonitors(stops, Tail(monitors))
            ELSE MergeMonitors(
                   AddToStop(stops, monitor,
                             KeptLines(monitor.lines, get_line_filters[monitor.diva])),
                   Tail(monitors))

\* The result; the timestamp is the one of the responses above.
transform_response(monitors) == Response(PyList(MergeMonitors(<< >>, monitors)))

(***************************************************************************)
(* TransformSpec: transform_response as a function of the monitors.  The   *)
(* input is up to MaxMonitors monitors, each of any DIVA (two configured,  *)
(* one not) with up to two lines.  The variable blocking holds the input;  *)
(* the one step is the call, whose result goes to data.                    *)
(***************************************************************************)
TransformInit ==
  /\ pc = "transform"
  /\ \E k \in 0..MaxMonitors :
       \E divas \in [1..k -> Divas] :
         \E lines \in [1..k -> UNION {[1..n -> ApiLines] : n \in 0..2}] :
           blocking = [call |-> "transform_response",
                       monitors |-> [i \in 1..k |-> Monitor(divas[i], lines[i])]]
  /\ data = None
  /\ boot_time = SyncedStart
  /\ unicode_case = FALSE
  /\ now = boot_time
  /\ DATA_REFRESH_INTERVAL = 1
  /\ ANIMATION_INTERVAL = 1
  /\ STALE_RESTART_THRESHOLD = 0
  /\ full_refresh_interval = 1
  /\ current_time = 0
  /\ last_data_fetch = 0
  /\ last_animation_toggle = 0
  /\ has_displayed_data = FALSE
  /\ using_stale_data = FALSE
  /\ led = FALSE
  /\ link_up = TRUE
  /\ display = init_display(DisplayGlobals)
  /\ fetch_result = "idle"
  /\ reconnect_result = "idle"
  /\ last_success = NoTime
  /\ fail_since = NoTime
  /\ restarts = 0
  /\ action = "None"
  /\ wdt = WatchdogOff
  /\ attempt = NoAttempt

\* result = transform_response(raw_data)
CallTransform ==
  /\ pc = "transform"
  /\ data' = transform_response(blocking.monitors)
  /\ pc' = "transformed"
  /\ UNCHANGED <<now, config, current_time, last_data_fetch, last_animation_toggle,
                 has_displayed_data, using_stale_data, led, link_up, display,
                 history, action, wdt, attempt, blocking>>

TransformNext == CallTransform

TransformSpec == TransformInit /\ [][TransformNext]_vars

\* The lines of the monitors of one DIVA that the configuration lets
\* through, monitor after monitor.
RECURSIVE ExpectedLines(_, _)
ExpectedLines(monitors, diva) ==
  IF monitors = << >> THEN << >>
  ELSE (IF monitors[1].diva = diva
          THEN SelectSeq(monitors[1].lines,
                         LAMBDA l : /\ l.name \in DOMAIN get_line_filters[diva]
                                    /\ \/ get_line_filters[diva][l.name] = << >>
                                       \/ InSeq(get_line_filters[diva][l.name], l.direction)
                                    /\ Len(l.departures) > 0)
          ELSE << >>)
         \o ExpectedLines(Tail(monitors), diva)

(***************************************************************************)
(* C29.  The output of transform_response holds at most one stop per DIVA; *)
(* every stop belongs to a configured DIVA and has at least one line;      *)
(* every line has a name configured for the DIVA, a direction the          *)
(* configuration allows for the line (an empty list allows all) and at     *)
(* least one departure; and the lines under a stop are the lines of all    *)
(* monitors of its DIVA that pass the filter, in input order, each with    *)
(* as many departures as it came with; a DIVA with a line that passes has  *)
(* a stop.                                                                 *)
(***************************************************************************)
C29_MergeByDivaAndFilter ==
  pc = "transformed" =>
    LET out == data.data.items
        monitors == blocking.monitors
    IN /\ \A i \in DOMAIN out : \A j \in DOMAIN out : i # j => out[i].diva # out[j].diva
       /\ \A i \in DOMAIN out :
            /\ out[i].diva \in DOMAIN get_line_filters
            /\ Len(out[i].lines) >= 1
            /\ \A l \in DOMAIN out[i].lines :
                 LET line == out[i].lines[l]
                     allowed == get_line_filters[out[i].diva]
                 IN /\ line.name \in DOMAIN allowed
                    /\ allowed[line.name] = << >> \/ InSeq(allowed[line.name], line.direction)
                    /\ Len(line.departures) >= 1
            /\ LET expected == ExpectedLines(monitors, out[i].diva)
               IN /\ Len(out[i].lines) = Len(expected)
                  /\ \A l \in DOMAIN expected :
                       /\ out[i].lines[l].name = expected[l].name
                       /\ out[i].lines[l].direction = expected[l].direction
                       /\ Len(out[i].lines[l].departures) = Len(expected[l].departures)
       /\ \A d \in DOMAIN get_line_filters :
            ExpectedLines(monitors, d) # << >> => \E i \in DOMAIN out : out[i].diva = d

\* Two monitors of the first stop, each with a line that passes: one stop
\* with both lines, the line of the first monitor first.
C29_Witness ==
  /\ pc = "transformed"
  /\ Len(blocking.monitors) = 2
  /\ blocking.monitors[1].diva = "60201438"
  /\ blocking.monitors[2].diva = "60201438"
  /\ blocking.monitors[1].lines = <<ApiLine("U4", "H", <<Departure(7)>>)>>
  /\ blocking.monitors[2].lines = <<ApiLine("49", "H", <<Departure(5), DepartureNoCountdown>>),
                                    ApiLine("49", "R", <<Departure(3)>>)>>
  /\ Len(data.data.items) = 1
  /\ Len(data.data.items[1].lines) = 2
  /\ data.data.items[1].lines[1].name = "U4"
  /\ data.data.items[1].lines[2].name = "49"

\* The minute of the hour of the local time at t.
LocalMinute(t) == localtime(t + get_timezone_offset(t)).minute

(***************************************************************************)
(* C30.  update_current_time refreshes only when the minute has changed.   *)
(* In every state of the display module a call returns True exactly when   *)
(* the local minute differs from the minute stored by its last redraw;     *)
(* then it draws the clock of that minute, stores the minute and performs  *)
(* one partial flush, and otherwise it returns False and leaves the frame  *)
(* and the module state as they are, with no flush.  A second call in the  *)
(* same minute returns False, and no other function of the module changes  *)
(* the stored minute, whatever is redrawn in between: so each flush of     *)
(* update_current_time belongs to a minute change of its own.              *)
(***************************************************************************)
C30_RefreshOnlyOnMinuteChange ==
  /\ [](LET U == update_current_time_result(display, now)
            again == update_current_time_result(U.display, now)
        IN /\ U.returned \in BOOLEAN
           /\ U.returned <=> (LocalMinute(now) # display._last_displayed_minute)
           /\ U.returned =>
                /\ U.display.flushes = <<"partial">>
                /\ U.display._last_displayed_minute = LocalMinute(now)
                /\ U.display.frame.status.clock = ClockText(now)
                /\ U.display.frame.area = display.frame.area
           /\ ~U.returned =>
                /\ U.display.flushes = << >>
                /\ U.display = [display EXCEPT !.flushes = << >>]
           /\ ~again.returned
           /\ again.display.flushes = << >>
           /\ again.display.frame = U.display.frame)
  /\ [][display'._last_displayed_minute # display._last_displayed_minute =>
          /\ display' = update_current_time_result(display, now).display
          /\ display'.flushes = <<"partial">>
          /\ display'._last_displayed_minute = LocalMinute(now)
          /\ now' = now]_vars

\* Departure data on the screen, the minute has changed since the start,
\* and the clock of the new minute has been flushed by update_current_time.
C30_Witness ==
  /\ display.frame.area.kind = "data"
  /\ LocalMinute(now) # LocalMinute(boot_time)
  /\ display._last_displayed_minute = LocalMinute(now)
  /\ display.flushes = <<"partial">>
  /\ display.frame.status.clock = ClockText(now)
  /\ display._refresh_count > 0
  /\ display._last_update_time = now

(***************************************************************************)
(* C31.  The cached dataset is released before every fetch and restored    *)
(* only by the render of a successful fetch.  At the end of every tick     *)
(* _cached_departures is a dataset exactly when a fetch has been attempted *)
(* and the most recent attempt succeeded; the dataset handed to            *)
(* write_to_display after a fetch is never None; and an animation step     *)
(* that finds the cache released draws nothing, flushes nothing and keeps  *)
(* the phase, while one that redraws had a cached dataset and keeps it.    *)
(***************************************************************************)
C31_CacheTracksLastFetch ==
  /\ [](/\ pc \in {"sleep", "fail_sleep"} =>
             (display._cached_departures # None
                <=> (attempt.time # NoTime /\ last_success = attempt.time))
        /\ pc = "render" => (data # None /\ data.data # None)
        /\ pc = "fail_sleep" => display._cached_departures = None)
  /\ [][/\ (pc = "fetch" /\ pc' \in {"render", "fail_sleep"}) =>
             display'._cached_departures = None
        /\ (pc = "render" /\ pc' # "render") =>
             display'._cached_departures = data.data
        /\ (pc = "display" /\ pc' = "sleep" /\ AnimationDue) =>
             /\ display'._cached_departures = display._cached_departures
             /\ display._cached_departures = None =>
                  /\ display'.flushes = << >>
                  /\ display'.frame = display.frame
                  /\ display'._arriving_indicator_state = display._arriving_indicator_state
                  /\ display'._refresh_count = display._refresh_count
             /\ display'.flushes # << >> => display._cached_departures # None]_vars

\* A tick ends in which the animation was due but the cache had been
\* released by a failed fetch that followed a successful one.
C31_Witness ==
  /\ pc = "sleep"
  /\ has_displayed_data
  /\ fetch_result = "not_due"
  /\ last_success # NoTime
  /\ attempt.time > last_success
  /\ display._cached_departures = None
  /\ last_animation_toggle = current_time
  /\ display.frame.area.kind = "data"

(***************************************************************************)
(* C32.  _last_update_time is set only by the render of a successful       *)
(* fetch: a step changes it only if it is the render step of the loop,     *)
(* the animation step, the clock update and the status update leave it     *)
(* as it is, and at the end of every tick after a successful fetch it is   *)
(* the time of the last successful fetch, from which the stale marker      *)
(* counts.  update_arriving_animation redraws through write_to_display,    *)
(* which stores the time of every call: this fails.                        *)
(***************************************************************************)
C32_AgeCountsFromLastFetch ==
  /\ [](/\ (pc = "sleep" /\ last_success # NoTime) =>
             display._last_update_time = last_success
        /\ (/\ pc = "sleep"
            /\ last_success # NoTime
            /\ display.flushes # << >>
            /\ display.frame.status.stale # << >>) =>
             display.frame.status.stale[2] = now - last_success)
  /\ [][display'._last_update_time # display._last_update_time => pc = "render"]_vars

(***************************************************************************)
(* StartupSpec: main() from power-on, second by second.  initialize()      *)
(* starts the watchdog, shows the start message and calls connect() (the   *)
(* steps of connect() are those of BlockingSpec; pc = "fetch" is the       *)
(* position where connect() has returned).  When the connection failed,    *)
(* the error screen is flushed, initialize() returns False and main()      *)
(* ends; when it succeeded, the loop starts (pc = "running", followed in   *)
(* the specifications above).  The watchdog of the chip cannot be stopped: *)
(* it resets the device when it has not been fed for longer than its       *)
(* timeout, and the device boots again.                                    *)
(***************************************************************************)
StartupInit ==
  /\ pc = "boot"
  /\ boot_time = UnsyncedStart
  /\ unicode_case = FALSE
  /\ now = boot_time
  /\ DATA_REFRESH_INTERVAL = 1
  /\ ANIMATION_INTERVAL = 1
  /\ STALE_RESTART_THRESHOLD = 0
  /\ full_refresh_interval = 1
  /\ current_time = 0
  /\ last_data_fetch = 0
  /\ last_animation_toggle = 0
  /\ has_displayed_data = FALSE
  /\ using_stale_data = FALSE
  /\ data = None
  /\ led = FALSE
  /\ link_up = FALSE
  /\ display = DisplayGlobals
  /\ fetch_result = "idle"
  /\ reconnect_result = "idle"
  /\ last_success = NoTime
  /\ fail_since = NoTime
  /\ restarts = 0
  /\ action = "None"
  /\ attempt = NoAttempt
  /\ \E t \in 1..MaxWatchdog : wdt = [WatchdogOff EXCEPT !.timeout = t]
  /\ \E timeout \in 0..MaxConnectTimeout :
       blocking = [call |-> "none", reconnect_delay_sec |-> 0, timeout |-> timeout,
                   elapsed |-> 0, busy |-> FALSE, attempts |-> 0, returned |-> "None"]

\* main.py lines 31-56: the watchdog is started and fed, the display
\* initialised, the start message shown, connect() called.
StartupBoot ==
  /\ pc = "boot"
  /\ wdt' = feed(feed([wdt EXCEPT !.unfed = 0, !.tick_feeds = 0]))
  /\ display' = write_start_msg_to_display(init_display(display), "Connecting to Wi-Fi...")
  /\ blocking' = [blocking EXCEPT !.call = "connect", !.elapsed = 0, !.returned = "None"]
  /\ pc' = "connect"
  /\ UNCHANGED <<now, config, locals, led, link_up, history, action, attempt>>

\* main.py lines 56-59: connect() returned False; the error screen is
\* written and its flush started.
InitializeFails ==
  /\ pc = "fetch"
  /\ blocking.returned = "False"
  /\ display' = write_error_to_display(display, "Wi-Fi connection failed")
  /\ blocking' = [blocking EXCEPT !.call = "epd_wait", !.busy = TRUE]
  /\ pc' = "error_flush"
  /\ UNCHANGED <<now, config, locals, led, link_up, history, action, attempt, wdt>>

\* main.py lines 61-70 and 183-184: connect() returned True; two feeds, the
\* start messages, and the loop starts.
InitializeSucceeds ==
  /\ pc = "fetch"
  /\ blocking.returned = "True"
  /\ wdt' = feed(feed(wdt))
  /\ display' =
       write_start_msg_to_display(
         write_start_msg_to_display(display, "Syncing time..."), "Fetching data...")
  /\ pc' = "running"
  /\ UNCHANGED <<now, config, locals, led, link_up, history, action, attempt, blocking>>

\* ssd1683.py line 57 and main.py lines 59, 183: the panel lowers BUSY, the
\* flush returns, initialize() returns False and main() ends.
ErrorFlushDone ==
  /\ pc = "error_flush"
  /\ blocking' = [blocking EXCEPT !.call = "none", !.busy = FALSE]
  /\ pc' = "ended"
  /\ UNCHANGED <<now, config, locals, led, link_up, display, history, action, attempt, wdt>>

\* Variant of SecondPasses: something keeps feeding the watchdog after the
\* failure.
SecondPasses_Fed ==
  /\ pc \in {"error_flush", "ended"}
  /\ wdt.unfed <= wdt.timeout
  /\ wdt' = feed(Elapse(wdt, 1))
  /\ UNCHANGED <<pc, now, config, locals, led, link_up, display, history, action,
                 attempt, blocking>>

\* A second passes while the flush waits or after main() has ended: no
\* statement of the program runs that feeds the watchdog.
SecondPasses ==
  /\ pc \in {"error_flush", "ended"}
  /\ wdt.unfed <= wdt.timeout
  /\ wdt' = Elapse(wdt, 1)
  /\ UNCHANGED <<pc, now, config, locals, led, link_up, display, history, action,
                 attempt, blocking>>

\* main.py line 32, machine.WDT: not fed for longer than the timeout, the
\* watchdog resets the device; the module state is lost, the panel keeps
\* its picture.
WatchdogReset ==
  /\ pc \in {"error_flush", "ended"}
  /\ wdt.unfed > wdt.timeout
  /\ wdt' = [wdt EXCEPT !.unfed = 0, !.tick_feeds = 0]
  /\ display' = [DisplayGlobals EXCEPT !.frame = display.frame]
  /\ blocking' = [blocking EXCEPT !.call = "none", !.busy = FALSE, !.elapsed = 0,
                                  !.returned = "None"]
  /\ link_up' = FALSE
  /\ pc' = "boot"
  /\ UNCHANGED <<now, config, locals, led, history, action, attempt>>

\* The statements of the program.
StartupProgram ==
  \/ StartupBoot
  \/ ConnectReset
  \/ ConnectAlready
  \/ ConnectInitiate
  \/ ConnectWaitDone
  \/ ConnectWaitTimeout
  \/ ConnectWaitSpin
  \/ InitializeFails
  \/ InitializeSucceeds

StartupNext == StartupProgram \/ ErrorFlushDone \/ SecondPasses \/ WatchdogReset

StartupSpec == StartupInit /\ [][StartupNext]_vars

\* The program keeps running, time passes and the watchdog fires when it
\* has expired; nothing obliges the panel to lower BUSY.
StartupFairSpec ==
  StartupSpec /\ WF_vars(StartupProgram) /\ WF_vars(SecondPasses) /\ WF_vars(WatchdogReset)

(***************************************************************************)
(* C33.  After a startup failure the device does not stay unsupervised.    *)
(* Once connect() has returned False in initialize(), the error screen     *)
(* 'Wi-Fi connection failed' is shown and no step feeds the watchdog any   *)
(* more, neither while the flush of the error screen waits nor after       *)
(* main() has ended: the time since the last feed only grows until the     *)
(* watchdog resets the device.  So the failure always leads to the reset,  *)
(* and the device boots again: the error screen is no terminal state.      *)
(***************************************************************************)
C33_StartupFailureEndsInReset ==
  /\ (pc = "fetch" /\ blocking.returned = "False") ~> (pc = "boot")
  /\ (pc = "ended") ~> (pc = "boot")
  /\ [](pc \in {"error_flush", "ended"} =>
          /\ blocking.returned = "False"
          /\ ~link_up
          /\ display.frame.area =
               [kind |-> "error", msg |-> "Wi-Fi connection failed", rows |-> << >>])
  /\ [][(pc \in {"error_flush", "ended"}) =>
          (/\ (wdt'.tick_feeds = wdt.tick_feeds \/ pc' = "boot")
           /\ (wdt'.unfed >= wdt.unfed \/ pc' = "boot")
           /\ (pc' = "boot" => wdt.unfed > wdt.timeout)
           /\ pc' \in {"error_flush", "ended", "boot"})]_vars

\* main() has ended on the error screen and the watchdog has expired: the
\* reset is about to happen.
C33_Witness ==
  /\ pc = "ended"
  /\ blocking.returned = "False"
  /\ display.frame.area.kind = "error"
  /\ wdt.unfed > wdt.timeout
  /\ wdt.tick_feeds = 2

====
